---- MODULE Spec2Model ----
(***************************************************************************)
(* TokenRefresher of internal/minder/token.go: classification of a bearer  *)
(* token, the read-locked / write-locked access-token cache, realm         *)
(* discovery, realm validation and the refresh-token exchange.             *)
(*                                                                         *)
(* Strings are sequences of one-character strings.  Times are seconds.     *)
(***************************************************************************)
EXTENDS Integers, Sequences, FiniteSets, TLC

(***************************************************************************)
(* Bounds of the model.                                                    *)
(***************************************************************************)
NumCallers == 2
MaxCalls == 3
MaxTime == 60
TimeStep == 30
MaxExchanges == 3
MaxProbes == 3

(***************************************************************************)
(* Program constants.                                                      *)
(***************************************************************************)
tokenRefreshBuffer == 60
offlineTokenType == "Offline"
HashBytes == 16

\* The sentinel errors of lines 440-458, by name, and their texts.
Sentinels ==
  {"ErrNoToken", "ErrTokenMalformed", "ErrTokenExpired", "ErrRefreshFailed",
   "ErrRealmDiscoveryFailed", "ErrInvalidRealmURL"}
ErrorText(sentinel) ==
  CASE sentinel = "ErrNoToken" -> "no token provided"
    [] sentinel = "ErrTokenMalformed" -> "token is malformed"
    [] sentinel = "ErrTokenExpired" -> "access token is expired"
    [] sentinel = "ErrRefreshFailed" -> "token refresh failed"
    [] sentinel = "ErrRealmDiscoveryFailed" -> "realm URL discovery failed"
    [] sentinel = "ErrInvalidRealmURL" -> "invalid or untrusted realm URL"

(***************************************************************************)
(* strings.* helpers of the Go standard library, on sequences of chars.    *)
(***************************************************************************)
Digits == <<"0", "1", "2", "3", "4", "5", "6", "7", "8", "9">>
HexDigits == Digits \o <<"a", "b", "c", "d", "e", "f">>
Chars ==
  HexDigits \o
  <<"g", "h", "i", "j", "k", "l", "m", "n", "o", "p", "q", "r", "s", "t",
    "u", "v", "w", "x", "y", "z", "A", "B", "E", "N", "O", ".", ":", "/",
    "@", "=", ",", " ", "\"", "?">>

Code(c) == CHOOSE i \in 1..Len(Chars) : Chars[i] = c

IsDigit(c) == \E i \in 1..10 : Digits[i] = c
DigitVal(c) == (CHOOSE i \in 1..10 : Digits[i] = c) - 1

HasPrefix(s, p) == Len(s) >= Len(p) /\ SubSeq(s, 1, Len(p)) = p
HasSuffix(s, p) == Len(s) >= Len(p) /\ SubSeq(s, Len(s) - Len(p) + 1, Len(s)) = p

\* strings.Index: position of the first occurrence of sub in s, 0 if none.
Index(s, sub) ==
  LET hits == {i \in 1..(Len(s) - Len(sub) + 1) : SubSeq(s, i, i + Len(sub) - 1) = sub}
  IN IF hits = {} THEN 0 ELSE CHOOSE i \in hits : \A j \in hits : i <= j

\* strings.LastIndex for a one-character separator, 0 if none.
LastIndex(s, c) ==
  LET hits == {i \in 1..Len(s) : s[i] = c}
  IN IF hits = {} THEN 0 ELSE CHOOSE i \in hits : \A j \in hits : i >= j

\* strings.Split for a one-character separator.
RECURSIVE Split(_, _)
Split(s, c) ==
  LET i == Index(s, <<c>>)
  IN IF i = 0 THEN <<s>>
     ELSE <<SubSeq(s, 1, i - 1)>> \o Split(SubSeq(s, i + 1, Len(s)), c)

\* strings.Join with a one-character separator.
RECURSIVE Join(_, _)
Join(parts, c) ==
  IF Len(parts) = 0 THEN <<>>
  ELSE IF Len(parts) = 1 THEN parts[1]
  ELSE parts[1] \o <<c>> \o Join(Tail(parts), c)

\* strconv: decimal digits to a number, and back (the %d verb).
RECURSIVE ParseDecimal(_)
ParseDecimal(s) ==
  IF Len(s) = 0 THEN 0
  ELSE 10 * ParseDecimal(SubSeq(s, 1, Len(s) - 1)) + DigitVal(s[Len(s)])

RECURSIVE FormatDecimal(_)
FormatDecimal(n) ==
  IF n < 10 THEN <<Digits[n + 1]>>
  ELSE FormatDecimal(n \div 10) \o <<Digits[(n % 10) + 1]>>

(***************************************************************************)
(* time.Time comparisons.                                                  *)
(***************************************************************************)
After(t, u) == t > u
Before(t, u) == t < u
\* time.Time{}: the zero instant, before every instant of the model.
ZeroTime == -1

(***************************************************************************)
(* Bearer tokens.  A token is header "." claims "." signature.  The claims *)
(* segment is a scaled-down encoding of the claim map: one character for   *)
(* the typ claim (O: "Offline", B: "Bearer", N: no typ claim) followed by  *)
(* the decimal digits of the exp claim (none: no exp claim).  Any other    *)
(* character makes the segment undecodable.                                *)
(***************************************************************************)
NoClaims == [typ |-> "", hasExp |-> FALSE, exp |-> 0]

DecodeClaims(seg) ==
  IF Len(seg) = 0 \/ ~(seg[1] \in {"O", "B", "N"})
     \/ \E i \in 2..Len(seg) : ~IsDigit(seg[i])
  THEN [ok |-> FALSE, claims |-> NoClaims]
  ELSE [ok |-> TRUE,
        claims |-> [typ |-> IF seg[1] = "O" THEN "Offline"
                            ELSE IF seg[1] = "B" THEN "Bearer" ELSE "",
                    hasExp |-> Len(seg) > 1,
                    exp |-> ParseDecimal(SubSeq(seg, 2, Len(seg)))]]

\* A faulty variant: segments after the third are ignored.
ParseUnverified_atLeastThree(token) ==
  LET parts == Split(token, ".")
  IN IF Len(parts) < 3 \/ Len(parts[1]) = 0
     THEN [ok |-> FALSE, claims |-> NoClaims]
     ELSE DecodeClaims(parts[2])

\* jwt.Parser.ParseUnverified(token, jwt.MapClaims{}): three segments, the
\* header and the claims decodable; the signature is not verified.
ParseUnverified(token) ==
  LET parts == Split(token, ".")
  IN IF Len(parts) # 3 \/ Len(parts[1]) = 0
     THEN [ok |-> FALSE, claims |-> NoClaims]
     ELSE DecodeClaims(parts[2])

\* A faulty variant: the token is parsed before it is tested for emptiness.
Inspect_parseFirst(token, t) ==
  LET p == ParseUnverified(token)
  IN IF ~p.ok THEN [class |-> "malformed", err |-> "ErrTokenMalformed"]
     ELSE IF token = <<>> THEN [class |-> "empty", err |-> "ErrNoToken"]
     ELSE IF p.claims.typ = offlineTokenType
     THEN [class |-> "offline", err |-> "nil"]
     ELSE IF p.claims.hasExp /\ After(t + tokenRefreshBuffer, p.claims.exp)
     THEN [class |-> "expired", err |-> "ErrTokenExpired"]
     ELSE [class |-> "valid", err |-> "nil"]

\* A faulty variant: the expiry is looked at before the offline marker.
Inspect_expiryFirst(token, t) ==
  IF token = <<>> THEN [class |-> "empty", err |-> "ErrNoToken"]
  ELSE LET p == ParseUnverified(token)
       IN IF ~p.ok THEN [class |-> "malformed", err |-> "ErrTokenMalformed"]
          ELSE IF p.claims.hasExp /\ After(t + tokenRefreshBuffer, p.claims.exp)
          THEN [class |-> "expired", err |-> "ErrTokenExpired"]
          ELSE IF p.claims.typ = offlineTokenType
          THEN [class |-> "offline", err |-> "nil"]
          ELSE [class |-> "valid", err |-> "nil"]

\* A faulty variant: a token without an exp claim is taken to be expired.
Inspect_noExpIsExpired(token, t) ==
  IF token = <<>> THEN [class |-> "empty", err |-> "ErrNoToken"]
  ELSE LET p == ParseUnverified(token)
       IN IF ~p.ok THEN [class |-> "malformed", err |-> "ErrTokenMalformed"]
          ELSE IF p.claims.typ = offlineTokenType
          THEN [class |-> "offline", err |-> "nil"]
          ELSE IF ~p.claims.hasExp \/ After(t + tokenRefreshBuffer, p.claims.exp)
          THEN [class |-> "expired", err |-> "ErrTokenExpired"]
          ELSE [class |-> "valid", err |-> "nil"]

\* A faulty variant: an expired access token is sent to the refresh path, as the
\* doc comment of GetValidAccessToken has it.
Inspect_refreshExpired(token, t) ==
  IF token = <<>> THEN [class |-> "empty", err |-> "ErrNoToken"]
  ELSE LET p == ParseUnverified(token)
       IN IF ~p.ok THEN [class |-> "malformed", err |-> "ErrTokenMalformed"]
          ELSE IF p.claims.typ = offlineTokenType
          THEN [class |-> "offline", err |-> "nil"]
          ELSE IF p.claims.hasExp /\ After(t + tokenRefreshBuffer, p.claims.exp)
          THEN [class |-> "offline", err |-> "nil"]
          ELSE [class |-> "valid", err |-> "nil"]

\* Lines 526-560: the decision of GetValidAccessToken at instant
\* t = time.Now(): the class of the token and the error returned for it.
Inspect(token, t) ==
  IF token = <<>> THEN [class |-> "empty", err |-> "ErrNoToken"]
  ELSE LET p == ParseUnverified(token)
       IN IF ~p.ok THEN [class |-> "malformed", err |-> "ErrTokenMalformed"]
          ELSE IF p.claims.typ = offlineTokenType
          THEN [class |-> "offline", err |-> "nil"]
          ELSE IF p.claims.hasExp /\ After(t + tokenRefreshBuffer, p.claims.exp)
          THEN [class |-> "expired", err |-> "ErrTokenExpired"]
          ELSE [class |-> "valid", err |-> "nil"]

(***************************************************************************)
(* hashToken: hex of the first 16 bytes of the SHA-256 digest.  The digest *)
(* is modelled by a mixing function of all characters of the token; only   *)
(* its shape (32 bytes, a function of the whole input) is SHA-256's.       *)
(***************************************************************************)
RECURSIVE Mix(_, _)
Mix(s, i) ==
  IF Len(s) = 0 THEN (7 * i) % 256
  ELSE (31 * Mix(SubSeq(s, 1, Len(s) - 1), i) + Code(s[Len(s)]) + i) % 256

Sum256(s) == [i \in 1..32 |-> Mix(s, i)]

RECURSIVE HexEncode(_)
HexEncode(bytes) ==
  IF Len(bytes) = 0 THEN <<>>
  ELSE <<HexDigits[(bytes[1] \div 16) + 1], HexDigits[(bytes[1] % 16) + 1]>>
       \o HexEncode(Tail(bytes))

\* A faulty variant: the key is the hash of the first segment of the token,
\* which tokens of one issuer have in common.
hashToken_ofHeader(token) ==
  HexEncode(SubSeq(Sum256(Split(token, ".")[1]), 1, HashBytes))

\* A faulty variant: the key of the earlier revision, the first 32 characters of
\* the refresh token itself.
hashToken_rawPrefix(token) ==
  IF Len(token) > 32 THEN SubSeq(token, 1, 32) ELSE token

hashToken(token) == HexEncode(SubSeq(Sum256(token), 1, HashBytes))

(***************************************************************************)
(* net/url and net helpers, as far as validateRealmURL uses them.          *)
(***************************************************************************)
UpperChars == <<"A", "B", "E", "N", "O">>
LowerOfUpper == <<"a", "b", "e", "n", "o">>
IsLetter(c) == Code(c) > 10 /\ Code(c) <= 41

LowerChar(c) ==
  IF \E i \in 1..Len(UpperChars) : UpperChars[i] = c
  THEN LowerOfUpper[CHOOSE i \in 1..Len(UpperChars) : UpperChars[i] = c]
  ELSE c

ToLower(s) == [i \in 1..Len(s) |-> LowerChar(s[i])]

RECURSIVE TrimLeft(_)
TrimLeft(s) == IF Len(s) > 0 /\ s[1] = " " THEN TrimLeft(Tail(s)) ELSE s
RECURSIVE TrimRight(_)
TrimRight(s) ==
  IF Len(s) > 0 /\ s[Len(s)] = " " THEN TrimRight(SubSeq(s, 1, Len(s) - 1)) ELSE s
TrimSpace(s) == TrimRight(TrimLeft(s))

\* strings.SplitN(s, "=", 2)
SplitN2(s, c) ==
  LET i == Index(s, <<c>>)
  IN IF i = 0 THEN <<s>> ELSE <<SubSeq(s, 1, i - 1), SubSeq(s, i + 1, Len(s))>>

\* url.Parse, as far as validateRealmURL reads its result.
\* getScheme: the length of "scheme:" at the start of raw, 0 if there is none.
\* A scheme starts with a letter and goes on with letters, digits and "."
\* (of "+", "-" and ".", the alphabet of the model has only the last).
SchemeLen(raw) ==
  LET colon == Index(raw, <<":">>)
  IN IF colon > 1 /\ IsLetter(raw[1])
        /\ \A i \in 1..(colon - 1) : IsLetter(raw[i]) \/ IsDigit(raw[i]) \/ raw[i] = "."
     THEN colon ELSE 0

\* strings.Cut(rest, "?"): what precedes the query.
BeforeQuery(rest) ==
  LET q == Index(rest, <<"?">>)
  IN IF q = 0 THEN rest ELSE SubSeq(rest, 1, q - 1)

\* The errors of getScheme and parse that do not depend on the authority:
\* a leading ":" (missing protocol scheme), and without a scheme a first
\* path segment that contains a colon.
RejectsShape(raw) ==
  \/ Len(raw) > 0 /\ raw[1] = ":"
  \/ /\ SchemeLen(raw) = 0
     /\ ~HasPrefix(raw, <<"/">>)
     /\ LET rest == BeforeQuery(raw)
            slash == Index(rest, <<"/">>)
            segment == IF slash = 0 THEN rest ELSE SubSeq(rest, 1, slash - 1)
        IN Index(segment, <<":">>) # 0

\* The authority: what follows "//" up to the next "/".
AuthorityOf(rest) ==
  IF ~HasPrefix(rest, <<"/", "/">>) THEN <<>>
  ELSE LET slash == Index(SubSeq(rest, 3, Len(rest)), <<"/">>)
       IN IF slash = 0 THEN SubSeq(rest, 3, Len(rest))
          ELSE SubSeq(rest, 3, slash + 1)

\* URL.Hostname and URL.Port: the host without ":port", and the port.
\* (splitHostPort and parseHost look for the last colon.)
StripPort(hostport) ==
  LET colon == LastIndex(hostport, ":")
  IN IF colon = 0 THEN hostport ELSE SubSeq(hostport, 1, colon - 1)
PortOf(hostport) ==
  LET colon == LastIndex(hostport, ":")
  IN IF colon = 0 THEN <<>> ELSE SubSeq(hostport, colon + 1, Len(hostport))

\* parseAuthority: userinfo before the last "@", host and port after it; an
\* error for a port that is not a number or a host with a space.
ParseAuthority(authority, scheme) ==
  LET at == LastIndex(authority, "@")
  IN [ok |-> (\A i \in (at + 1)..Len(authority) : authority[i] # " ")
             /\ (\A i \in 1..Len(PortOf(SubSeq(authority, at + 1, Len(authority)))) :
                   IsDigit(PortOf(SubSeq(authority, at + 1, Len(authority)))[i])),
      Scheme |-> scheme,
      hasUser |-> at > 0,
      Hostname |-> StripPort(SubSeq(authority, at + 1, Len(authority)))]

ParseURLShape(raw) ==
  ParseAuthority(AuthorityOf(BeforeQuery(SubSeq(raw, SchemeLen(raw) + 1, Len(raw)))),
                 ToLower(SubSeq(raw, 1, SchemeLen(raw) - 1)))

ParseURL(raw) ==
  IF RejectsShape(raw) THEN [ParseURLShape(raw) EXCEPT !.ok = FALSE]
  ELSE ParseURLShape(raw)

\* net.ParseIP for dotted-decimal IPv4 literals: the four octets, or <<>>.
ParseIP(host) ==
  LET parts == Split(host, ".")
      okPart(p) == Len(p) \in 1..3 /\ (\A i \in 1..Len(p) : IsDigit(p[i]))
                   /\ (Len(p) > 1 => p[1] # "0") /\ ParseDecimal(p) <= 255
  IN IF Len(parts) = 4 /\ \A k \in 1..4 : okPart(parts[k])
     THEN [k \in 1..4 |-> ParseDecimal(parts[k])]
     ELSE <<>>

IsLoopback(ip) == ip[1] = 127
IsPrivate(ip) ==
  \/ ip[1] = 10
  \/ ip[1] = 172 /\ ip[2] \in 16..31
  \/ ip[1] = 192 /\ ip[2] = 168
IsLinkLocalUnicast(ip) == ip[1] = 169 /\ ip[2] = 254
IsLinkLocalMulticast(ip) == ip[1] = 224 /\ ip[2] = 0 /\ ip[3] = 0
IsUnspecified(ip) == ip = <<0, 0, 0, 0>>

isLocalhostHost(host) ==
  \/ host = <<"l", "o", "c", "a", "l", "h", "o", "s", "t">>
  \/ LET ip == ParseIP(host) IN ip # <<>> /\ IsLoopback(ip)

\* A faulty variant: only the RFC 1918 ranges count as reserved.
isPrivateOrReservedHost_privateOnly(host) ==
  LET ip == ParseIP(host)
  IN IF ip = <<>> THEN FALSE ELSE IsPrivate(ip)

isPrivateOrReservedHost(host) ==
  LET ip == ParseIP(host)
  IN IF ip = <<>> THEN FALSE
     ELSE \/ IsLoopback(ip)
          \/ IsPrivate(ip)
          \/ IsLinkLocalUnicast(ip)
          \/ IsLinkLocalMulticast(ip)
          \/ IsUnspecified(ip)

\* A faulty variant: the base domain is the last label alone.
getBaseDomain_lastLabel(host) ==
  LET idx == LastIndex(host, ":")
      h == IF idx # 0 THEN SubSeq(host, 1, idx - 1) ELSE host
      parts == Split(h, ".")
  IN parts[Len(parts)]

getBaseDomain(host) ==
  LET idx == LastIndex(host, ":")
      h == IF idx # 0 THEN SubSeq(host, 1, idx - 1) ELSE host
      parts == Split(h, ".")
  IN IF Len(parts) < 2 THEN h
     ELSE Join(SubSeq(parts, Len(parts) - 1, Len(parts)), ".")

isRelatedHost(realmHost0, expectedHost0) ==
  LET realmHost == ToLower(realmHost0)
      expectedHost == ToLower(expectedHost0)
      realmBase == getBaseDomain(realmHost)
      expectedBase == getBaseDomain(expectedHost)
  IN \/ realmBase = expectedBase /\ realmBase # <<>>
     \/ isLocalhostHost(realmHost) /\ isLocalhostHost(expectedHost)
     \/ HasSuffix(realmHost, <<".">> \o expectedBase)
     \/ HasSuffix(expectedHost, <<".">> \o realmBase)

\* A faulty variant: the checks of the earlier revision, where http is
\* accepted for every host.
validateRealmURL_httpAnywhere(realmURL, expectedHost) ==
  LET parsedRealm == ParseURL(realmURL)
      host == parsedRealm.Hostname
  IN IF ~parsedRealm.ok THEN "invalid URL format"
     ELSE IF parsedRealm.Scheme # <<"h", "t", "t", "p">>
             /\ parsedRealm.Scheme # <<"h", "t", "t", "p", "s">>
     THEN "invalid scheme"
     ELSE IF parsedRealm.hasUser THEN "realm URL must not contain credentials"
     ELSE IF host = <<>> THEN "realm URL must have a valid host"
     ELSE IF ~isLocalhostHost(host) /\ isPrivateOrReservedHost(host)
     THEN "realm URL points to private/reserved address"
     ELSE IF ~isRelatedHost(host, expectedHost) THEN "realm host not related to expected host"
     ELSE "nil"

\* A faulty variant: no look at the userinfo.
validateRealmURL_credentialsAllowed(realmURL, expectedHost) ==
  LET parsedRealm == ParseURL(realmURL)
      host == parsedRealm.Hostname
  IN IF ~parsedRealm.ok THEN "invalid URL format"
     ELSE IF parsedRealm.Scheme = <<"h", "t", "t", "p">> /\ ~isLocalhostHost(host)
     THEN "http scheme only allowed for localhost"
     ELSE IF parsedRealm.Scheme # <<"h", "t", "t", "p">>
             /\ parsedRealm.Scheme # <<"h", "t", "t", "p", "s">>
     THEN "invalid scheme"
     ELSE IF host = <<>> THEN "realm URL must have a valid host"
     ELSE IF ~isLocalhostHost(host) /\ isPrivateOrReservedHost(host)
     THEN "realm URL points to private/reserved address"
     ELSE IF ~isRelatedHost(host, expectedHost) THEN "realm host not related to expected host"
     ELSE "nil"

\* validateRealmURL: "nil", or the rule that rejects the URL.
validateRealmURL(realmURL, expectedHost) ==
  LET parsedRealm == ParseURL(realmURL)
      host == parsedRealm.Hostname
  IN IF ~parsedRealm.ok THEN "invalid URL format"
     ELSE IF parsedRealm.Scheme = <<"h", "t", "t", "p">> /\ ~isLocalhostHost(host)
     THEN "http scheme only allowed for localhost"
     ELSE IF parsedRealm.Scheme # <<"h", "t", "t", "p">>
             /\ parsedRealm.Scheme # <<"h", "t", "t", "p", "s">>
     THEN "invalid scheme"
     ELSE IF parsedRealm.hasUser THEN "realm URL must not contain credentials"
     ELSE IF host = <<>> THEN "realm URL must have a valid host"
     ELSE IF ~isLocalhostHost(host) /\ isPrivateOrReservedHost(host)
     THEN "realm URL points to private/reserved address"
     ELSE IF ~isRelatedHost(host, expectedHost) THEN "realm host not related to expected host"
     ELSE "nil"

(***************************************************************************)
(* extractRealmFromWWWAuthenticate                                         *)
(***************************************************************************)
maxWWWAuthHeaderLen == 2048
\* What a run-time panic leaves in place of a result: not a string.
Panic == <<"panic">>
BearerPrefix == <<"B", "e", "a", "r", "e", "r", " ">>
RealmKey == <<"r", "e", "a", "l", "m">>

\* The loop over the comma-separated parts: the first realm parameter wins.
RECURSIVE RealmOfParts(_)
RealmOfParts(parts) ==
  IF Len(parts) = 0 THEN <<>>
  ELSE LET kv == SplitN2(TrimSpace(parts[1]), "=")
       IN IF Len(kv) = 2 /\ TrimSpace(kv[1]) = RealmKey
          THEN LET value == TrimSpace(kv[2])
               IN IF HasPrefix(value, <<"\"">>) /\ HasSuffix(value, <<"\"">>)
                  THEN \* value[1 : len(value)-1]: for the one-character value
                       \* the bounds are [1:0], slice bounds out of range.
                       IF Len(value) < 2 THEN Panic
                       ELSE SubSeq(value, 2, Len(value) - 1)
                  ELSE value
          ELSE RealmOfParts(Tail(parts))

\* A faulty variant: no bound on the length of the header.
extractRealmFromWWWAuthenticate_noLimit(header) ==
  IF ~HasPrefix(header, BearerPrefix) THEN <<>>
  ELSE RealmOfParts(Split(SubSeq(header, Len(BearerPrefix) + 1, Len(header)), ","))

extractRealmFromWWWAuthenticate(header) ==
  IF Len(header) > maxWWWAuthHeaderLen THEN <<>>
  ELSE IF ~HasPrefix(header, BearerPrefix) THEN <<>>
  ELSE RealmOfParts(Split(SubSeq(header, Len(BearerPrefix) + 1, Len(header)), ","))

(***************************************************************************)
(* The inputs of the model: bearer tokens, targets, and the answers of the *)
(* protected API (realm probe) and of the identity provider (exchange).    *)
(***************************************************************************)
TokEmpty == <<>>
TokNotJWT == <<"x">>
TokBadClaims == <<"h", ".", "?", ".", "s">>
TokOfflineA == <<"h", ".", "O", ".", "s">>
TokOfflineB == <<"h", ".", "O", "0", ".", "t">>
TokOfflineC == <<"h", ".", "O", "1", "5", "0", ".", "u">>
TokAccess60 == <<"h", ".", "B", "6", "0", ".", "s">>
TokAccess150 == <<"h", ".", "B", "1", "5", "0", ".", "s">>
TokAccessNoExp == <<"h", ".", "N", ".", "s">>
TokTwoSegments == <<"h", ".", "B">>
TokFourSegments == <<"h", ".", "B", ".", "s", ".", "t">>
TokNoHeader == <<".", "B", ".", "s">>

OfflineTokens == {TokOfflineA, TokOfflineB}
Tokens ==
  OfflineTokens \cup {TokOfflineC} \cup
  {TokEmpty, TokNotJWT, TokBadClaims, TokAccess60, TokAccess150, TokAccessNoExp,
   TokTwoSegments, TokFourSegments, TokNoHeader}

HostProd == <<"m", ".", "e", "x", ".", "c", "o">>
HostLocal == <<"l", "o", "c", "a", "l", "h", "o", "s", "t">>
CfgProd == [Host |-> HostProd, Port |-> 443, Insecure |-> FALSE]
CfgLocal == [Host |-> HostLocal, Port |-> 8090, Insecure |-> TRUE]
Configs == {CfgProd, CfgLocal}
ConcurrentTokens == OfflineTokens \cup {TokEmpty, TokNotJWT, TokAccess60}

RealmProd == <<"h", "t", "t", "p", "s", ":", "/", "/", "a", ".", "e", "x", ".", "c", "o", "/", "r">>
RealmLocal == <<"h", "t", "t", "p", ":", "/", "/", "l", "o", "c", "a", "l", "h", "o", "s", "t", ":", "8", "0", "8", "0", "/", "r">>
HdrProd ==
  BearerPrefix \o RealmKey \o <<"=", "\"">> \o RealmProd \o <<"\"", ",", " ">>
  \o <<"e", "r", "r", "o", "r", "=", "\"", "x", "\"">>
HdrLocal == BearerPrefix \o RealmKey \o <<"=">> \o RealmLocal
HdrBasic == <<"B", "a", "s", "i", "c", " ", "r", "e", "a", "l", "m", "=", "\"", "x", "\"">>
Headers == {HdrProd, HdrLocal, HdrBasic}

\* What the probe (UserService.GetUser without credentials) can come back
\* with: a transport failure, a status other than Unauthenticated, or
\* Unauthenticated with or without a www-authenticate header.
\* cause is the text of the error GetUser returned.
ProbeOutcomes ==
  {[kind |-> "transport", header |-> <<>>, cause |-> "connection refused"],
   [kind |-> "status", header |-> <<>>, cause |-> "permission denied"],
   [kind |-> "noheader", header |-> <<>>, cause |-> "unauthenticated"]}
  \cup {[kind |-> "header", header |-> h, cause |-> "unauthenticated"] : h \in Headers}

\* Further answers of the probe: headers without a usable realm, headers at
\* and over the length limit, and the status OK (GetUser returns a nil error).
HdrNoRealm == BearerPrefix \o <<"e", "r", "r", "o", "r", "=", "\"", "x", "\"">>
HdrEmptyRealm == BearerPrefix \o RealmKey \o <<"=", "\"", "\"">>
HdrLoneQuote == BearerPrefix \o RealmKey \o <<"=", "\"">>
HdrQuotedProd == BearerPrefix \o RealmKey \o <<"=", "\"">> \o RealmProd \o <<"\"">>
\* h followed by a further parameter that fills the header up to n bytes.
PadTo(h, n) == h \o <<",", "x", "=">> \o [i \in 1..(n - Len(h) - 3) |-> "a"]
HdrMaxLen == PadTo(HdrQuotedProd, maxWWWAuthHeaderLen)
HdrTooLong == PadTo(HdrQuotedProd, maxWWWAuthHeaderLen + 1)
AllHeaders ==
  Headers \cup {HdrNoRealm, HdrEmptyRealm, HdrLoneQuote, HdrMaxLen, HdrTooLong}
\* GetUser returns the error of the caller's context when it is cancelled
\* or past its deadline while the probe is in flight.
AllProbeOutcomes ==
  ProbeOutcomes
  \cup {[kind |-> "status", header |-> <<>>, cause |-> "%!w(<nil>)"]}
  \cup {[kind |-> "cancelled", header |-> <<>>, cause |-> c] :
          c \in {"context canceled", "context deadline exceeded"}}
  \cup {[kind |-> "header", header |-> h, cause |-> "unauthenticated"] : h \in AllHeaders}

\* Error texts the token request can fail with: the error codes of the
\* token endpoint that wrapOAuthError looks for, and others.
InvalidGrant ==
  <<"i", "n", "v", "a", "l", "i", "d", "_", "g", "r", "a", "n", "t">>
InvalidClient ==
  <<"i", "n", "v", "a", "l", "i", "d", "_", "c", "l", "i", "e", "n", "t">>
UnauthorizedClient ==
  <<"u", "n", "a", "u", "t", "h", "o", "r", "i", "z", "e", "d", "_", "c",
    "l", "i", "e", "n", "t">>
InvalidGrantUpper ==
  <<"I", "N", "V", "A", "L", "I", "D", "_", "G", "R", "A", "N", "T">>
InvalidPrefix ==
  <<"i", "n", "v", "a", "l", "i", "d", "_">>
ContextCanceled ==
  <<"c", "o", "n", "t", "e", "x", "t", " ", "c", "a", "n", "c", "e", "l",
    "e", "d">>
DeadlineExceeded ==
  <<"c", "o", "n", "t", "e", "x", "t", " ", "d", "e", "a", "d", "l", "i",
    "n", "e", " ", "e", "x", "c", "e", "e", "d", "e", "d">>
\* The messages of wrapOAuthError, character by character as the error
\* texts are.
MsgExpiredOrRevoked ==
  <<"r", "e", "f", "r", "e", "s", "h", " ", "t", "o", "k", "e", "n", " ",
    "i", "s", " ", "e", "x", "p", "i", "r", "e", "d", " ", "o", "r", " ",
    "r", "e", "v", "o", "k", "e", "d", ";", " ", "r", "e", "-", "a", "u",
    "t", "h", "e", "n", "t", "i", "c", "a", "t", "i", "o", "n", " ", "r",
    "e", "q", "u", "i", "r", "e", "d">>
MsgClientAuthFailed ==
  <<"c", "l", "i", "e", "n", "t", " ", "a", "u", "t", "h", "e", "n", "t",
    "i", "c", "a", "t", "i", "o", "n", " ", "f", "a", "i", "l", "e", "d">>
MsgClientNotAuthorized ==
  <<"c", "l", "i", "e", "n", "t", " ", "n", "o", "t", " ", "a", "u", "t",
    "h", "o", "r", "i", "z", "e", "d", " ", "f", "o", "r", " ", "t", "h",
    "i", "s", " ", "g", "r", "a", "n", "t", " ", "t", "y", "p", "e">>
NilError == [isNil |-> TRUE, text |-> <<>>]
ErrorOf(text) == [isNil |-> FALSE, text |-> text]

\* strings.Contains
Contains(s, sub) == Index(s, sub) # 0

\* A faulty variant: invalid_client is looked for before invalid_grant.
wrapOAuthError_clientFirst(err) ==
  IF err.isNil THEN [err |-> "nil", text |-> <<>>]
  ELSE LET errStr == err.text
       IN IF Contains(errStr, InvalidClient)
          THEN [err |-> "ErrRefreshFailed",
                text |-> <<ErrorText("ErrRefreshFailed"), MsgClientAuthFailed>>]
          ELSE IF Contains(errStr, InvalidGrant)
          THEN [err |-> "ErrRefreshFailed",
                text |-> <<ErrorText("ErrRefreshFailed"), MsgExpiredOrRevoked>>]
          ELSE IF Contains(errStr, UnauthorizedClient)
          THEN [err |-> "ErrRefreshFailed",
                text |-> <<ErrorText("ErrRefreshFailed"), MsgClientNotAuthorized>>]
          ELSE [err |-> "ErrRefreshFailed",
                text |-> <<ErrorText("ErrRefreshFailed"), errStr>>]

\* wrapOAuthError, lines 660-682: the sentinel the result matches and the
\* ": "-joined segments of its text: the text of the sentinel, and the
\* message or, in the generic wrapper, the text of err itself.
wrapOAuthError(err) ==
  IF err.isNil THEN [err |-> "nil", text |-> <<>>]
  ELSE LET errStr == err.text
       IN IF Contains(errStr, InvalidGrant)
          THEN [err |-> "ErrRefreshFailed",
                text |-> <<ErrorText("ErrRefreshFailed"), MsgExpiredOrRevoked>>]
          ELSE IF Contains(errStr, InvalidClient)
          THEN [err |-> "ErrRefreshFailed",
                text |-> <<ErrorText("ErrRefreshFailed"), MsgClientAuthFailed>>]
          ELSE IF Contains(errStr, UnauthorizedClient)
          THEN [err |-> "ErrRefreshFailed",
                text |-> <<ErrorText("ErrRefreshFailed"), MsgClientNotAuthorized>>]
          ELSE [err |-> "ErrRefreshFailed",
                text |-> <<ErrorText("ErrRefreshFailed"), errStr>>]

\* What the token request can come back with: an error (cause is its text),
\* or a token with expires_in (an offset from now) or without (Expiry is the
\* zero time).
ExpiryOffsets == {90}
ExchangeOutcomes ==
  {[kind |-> "error", offset |-> 0, cause |-> InvalidGrant],
   [kind |-> "noexpiry", offset |-> 0, cause |-> <<>>]}
  \cup {[kind |-> "token", offset |-> d, cause |-> <<>>] : d \in ExpiryOffsets}

\* Further results of the token request: other errors, and the error of the
\* caller's context when it is cancelled or past its deadline while the
\* request is in flight.
AllExchangeOutcomes ==
  ExchangeOutcomes
  \cup {[kind |-> "error", offset |-> 0, cause |-> InvalidClient \o InvalidGrant]}
  \cup {[kind |-> "cancelled", offset |-> 0, cause |-> c] :
          c \in {ContextCanceled, DeadlineExceeded}}

\* discoverRealmURL, lines 857-873, on the probe's outcome: the realm URL,
\* or <<>> for an error.
discoverRealmURL(o) ==
  IF o.kind # "header" \/ o.header = <<>> THEN <<>>
  ELSE extractRealmFromWWWAuthenticate(o.header)

\* The error discoverRealmURL returns with it, as the segments of its text;
\* <<>> is the nil error.
discoverRealmURLError(o) ==
  IF o.kind \in {"transport", "status", "cancelled"}
  THEN <<"unexpected response", o.cause>>
  ELSE IF o.kind # "header" \/ o.header = <<>>
  THEN <<"server did not return www-authenticate header">>
  ELSE IF extractRealmFromWWWAuthenticate(o.header) = <<>>
  THEN <<"could not parse realm from www-authenticate header">>
  ELSE <<>>

\* fmt.Sprintf("%s:%d", cfg.Host, cfg.Port)
RealmKeyOf(c) == c.Host \o <<":">> \o FormatDecimal(c.Port)

Callers == 1..NumCallers
Times == {t \in 0..MaxTime : t % TimeStep = 0}

\* The pure functions above on the inputs of the model, evaluated once.
parsed == [tok \in Tokens |-> ParseUnverified(tok)]
inspected == [tok \in Tokens, t \in Times |-> Inspect(tok, t)]
cacheKeyOf == [tok \in Tokens |-> hashToken(tok)]
discovered == [o \in AllProbeOutcomes |-> discoverRealmURL(o)]
discoveredError == [o \in AllProbeOutcomes |-> discoverRealmURLError(o)]
validated ==
  [u \in {discovered[o] : o \in AllProbeOutcomes} \ {<<>>, Panic}, c \in Configs |->
     validateRealmURL(u, c.Host)]
realmKeyOf == [c \in Configs |-> RealmKeyOf(c)]

(***************************************************************************)
(* State.                                                                  *)
(***************************************************************************)
VARIABLES
  now,        \* time.Now()
  cache,      \* t.cache: refresh-token hash -> cachedToken
  realmURLs,  \* t.realmURLs: "host:port" -> realm URL
  mu,         \* t.mu: the goroutines holding the read lock, the write lock
  pc,         \* where each goroutine is in GetValidAccessToken
  args,       \* the ctx, token and cfg of the goroutine's call
  realmURL,   \* refreshToken's local realmURL
  ret,        \* the value and error the call returned
  msg,        \* err.Error() of the error returned, as its ": "-joined segments
  calls,      \* calls started
  probes,     \* realm probes sent
  exchanges,  \* token-exchange requests sent
  hist,       \* per call: what it saw and did (history)
  races,      \* accesses to the maps made without the lock they need (history)
  offlineSeen,  \* the offline tokens presented so far (history)
  offlineFailed, \* whether an offline-token call has failed (history)
  everStale,  \* whether the cache has held an entry past its buffer (history)
  pure,       \* a function applied on its own: its input and its result
  idleConns,  \* t.httpClient: the idle connections its transport keeps
  closedBusy, \* whether Close has returned during a network call (history)
  origin      \* per access token issued: the call whose exchange got it (history)

vars ==
  <<now, cache, realmURLs, mu, pc, args, realmURL, ret, msg, calls, probes,
    exchanges, hist, races, offlineSeen, offlineFailed, everStale, pure,
    idleConns, closedBusy, origin>>

NoEntry == [present |-> FALSE, accessToken |-> <<>>, expiresAt |-> ZeroTime]
NoValidation == [url |-> <<>>, host |-> <<>>, res |-> "none"]
NoArgs == [token |-> <<>>, cfg |-> CfgProd, ctx |-> "live"]
NoRet == [value |-> <<>>, err |-> "nil"]
NoProbe == [kind |-> "none", header |-> <<>>, cause |-> ""]
NoHist ==
  [snap |-> NoEntry, netCalls |-> 0, validated |-> NoValidation,
   exchRealm |-> <<>>, probe |-> NoProbe, exchange |-> "none"]
NoPure == [fn |-> "none", in |-> <<>>, done |-> FALSE, out |-> <<>>]

Lookup(key) ==
  IF key \in DOMAIN cache
  THEN [present |-> TRUE, accessToken |-> cache[key].accessToken,
        expiresAt |-> cache[key].expiresAt]
  ELSE NoEntry

\* A faulty variant: an entry is still served at the very start of its buffer.
Fresh_inclusive(entry, t) ==
  entry.present /\ ~After(t + tokenRefreshBuffer, entry.expiresAt)

\* A faulty variant: the buffer is counted twice.
Fresh_doubleBuffer(entry, t) ==
  entry.present /\ Before(t + 2 * tokenRefreshBuffer, entry.expiresAt)

\* The test of lines 575-577 and 589-590: an entry exists and is still valid.
Fresh(entry, t) == entry.present /\ Before(t + tokenRefreshBuffer, entry.expiresAt)

HoldsRead(g) == g \in mu.readers
HoldsWrite(g) == g \in mu.writers
\* sync.RWMutex: RLock waits while a writer holds the lock, Lock waits
\* while anyone holds it.
CanRLock == mu.writers = {}
CanLock == mu.writers = {} /\ mu.readers = {}

\* The refresher as NewTokenRefresher returns it, and callers at rest.
Constructed ==
  /\ now = 0
  /\ cache = <<>>
  /\ realmURLs = <<>>
  /\ mu = [readers |-> {}, writers |-> {}]
  /\ pc = [g \in Callers |-> "idle"]
  /\ args = [g \in Callers |-> NoArgs]
  /\ realmURL = [g \in Callers |-> <<>>]
  /\ ret = [g \in Callers |-> NoRet]
  /\ calls = 0
  /\ probes = 0
  /\ exchanges = 0
  /\ hist = [g \in Callers |-> NoHist]
  /\ races = {}
  /\ offlineSeen = {}
  /\ offlineFailed = FALSE
  /\ everStale = FALSE
  /\ msg = [g \in Callers |-> <<>>]
  /\ idleConns = 0
  /\ closedBusy = FALSE
  /\ origin = <<>>

Init == Constructed /\ pure = NoPure

(***************************************************************************)
(* GetValidAccessToken, one action per step of a call.                     *)
(***************************************************************************)
\* The text of the error GetValidAccessToken builds for a token it does
\* not pass on (lines 527, 536 and 552-555).
InspectText(class) ==
  CASE class = "empty" -> <<ErrorText("ErrNoToken")>>
    [] class = "malformed" ->
         <<ErrorText("ErrTokenMalformed"), "token could not be parsed">>
    [] class = "expired" ->
         <<ErrorText("ErrTokenExpired"),
           "provide a valid offline/refresh token or a fresh access token">>
    [] OTHER -> <<>>

\* Lines 526-561: the empty check, the parse and the classification.  Only
\* an offline token goes on to getOrRefreshToken; every other call returns
\* here.
Begin(g, tok, c) ==
  /\ pc[g] = "idle"
  /\ calls < MaxCalls
  /\ calls' = calls + 1
  /\ args' = [args EXCEPT ![g] = [token |-> tok, cfg |-> c, ctx |-> "live"]]
  /\ LET r == inspected[tok, now]
         off == r.class = "offline"
     IN /\ pc' = [pc EXCEPT ![g] = IF off THEN "rlock" ELSE "done"]
        /\ ret' = [ret EXCEPT ![g] =
                     [value |-> IF r.class = "valid" THEN tok ELSE <<>>,
                      err |-> r.err]]
        /\ hist' = [hist EXCEPT ![g] =
                      [NoHist EXCEPT !.snap = IF off THEN Lookup(cacheKeyOf[tok])
                                              ELSE NoEntry]]
        /\ offlineSeen' = IF off THEN offlineSeen \cup {tok} ELSE offlineSeen
        /\ msg' = [msg EXCEPT ![g] = InspectText(r.class)]
  /\ UNCHANGED <<now, cache, realmURLs, mu, realmURL, probes, exchanges, races,
                 offlineFailed, everStale>>
  /\ UNCHANGED <<pure, idleConns, closedBusy, origin>>

\* Line 574.
RLock(g) ==
  /\ pc[g] = "rlock"
  /\ CanRLock
  /\ mu' = [mu EXCEPT !.readers = @ \cup {g}]
  /\ pc' = [pc EXCEPT ![g] = "rcheck"]
  /\ UNCHANGED <<now, cache, realmURLs, args, realmURL, ret, calls, probes,
                 exchanges, hist, races, offlineSeen, offlineFailed, everStale>>
  /\ UNCHANGED <<msg, pure, idleConns, closedBusy, origin>>

\* A faulty variant: a miss goes on to the write lock without RUnlock.
RCheck_keepsReadLock(g) ==
  /\ pc[g] = "rcheck"
  /\ LET cached == Lookup(cacheKeyOf[args[g].token])
     IN /\ races' = races \cup
                    (IF HoldsRead(g) \/ HoldsWrite(g) THEN {} ELSE {"cache read"})
        /\ IF Fresh(cached, now)
           THEN /\ ret' = [ret EXCEPT ![g] = [value |-> cached.accessToken, err |-> "nil"]]
                /\ pc' = [pc EXCEPT ![g] = "done"]
                /\ mu' = [mu EXCEPT !.readers = @ \ {g}]
           ELSE /\ pc' = [pc EXCEPT ![g] = "wlock"]
                /\ UNCHANGED <<ret, mu>>
  /\ UNCHANGED <<now, cache, realmURLs, args, realmURL, calls, probes, exchanges,
                 hist, offlineSeen, offlineFailed, everStale>>
  /\ UNCHANGED <<msg, pure, idleConns, closedBusy, origin>>

\* Lines 575-582: the check under the read lock, and RUnlock.
RCheck(g) ==
  /\ pc[g] = "rcheck"
  /\ LET cached == Lookup(cacheKeyOf[args[g].token])
     IN /\ races' = races \cup
                    (IF HoldsRead(g) \/ HoldsWrite(g) THEN {} ELSE {"cache read"})
        /\ mu' = [mu EXCEPT !.readers = @ \ {g}]
        /\ IF Fresh(cached, now)
           THEN /\ ret' = [ret EXCEPT ![g] = [value |-> cached.accessToken, err |-> "nil"]]
                /\ pc' = [pc EXCEPT ![g] = "done"]
           ELSE /\ pc' = [pc EXCEPT ![g] = "wlock"]
                /\ UNCHANGED ret
  /\ UNCHANGED <<now, cache, realmURLs, args, realmURL, calls, probes, exchanges,
                 hist, offlineSeen, offlineFailed, everStale>>
  /\ UNCHANGED <<msg, pure, idleConns, closedBusy, origin>>

\* A faulty variant: the write path takes the read lock.
Lock_readLock(g) ==
  /\ pc[g] = "wlock"
  /\ CanRLock
  /\ mu' = [mu EXCEPT !.readers = @ \cup {g}]
  /\ pc' = [pc EXCEPT ![g] = "wcheck"]
  /\ UNCHANGED <<now, cache, realmURLs, args, realmURL, ret, calls, probes,
                 exchanges, hist, races, offlineSeen, offlineFailed, everStale>>
  /\ UNCHANGED <<msg, pure, idleConns, closedBusy, origin>>

\* Lines 585-586; the deferred Unlock is part of every action that returns.
Lock(g) ==
  /\ pc[g] = "wlock"
  /\ CanLock
  /\ mu' = [mu EXCEPT !.writers = @ \cup {g}]
  /\ pc' = [pc EXCEPT ![g] = "wcheck"]
  /\ UNCHANGED <<now, cache, realmURLs, args, realmURL, ret, calls, probes,
                 exchanges, hist, races, offlineSeen, offlineFailed, everStale>>
  /\ UNCHANGED <<msg, pure, idleConns, closedBusy, origin>>

\* A faulty variant: no second look at the cache under the write lock.
WCheck_noDoubleCheck(g) ==
  /\ pc[g] = "wcheck"
  /\ races' = races \cup
              (IF HoldsRead(g) \/ HoldsWrite(g) THEN {} ELSE {"cache read"})
  /\ pc' = [pc EXCEPT ![g] = "getrealm"]
  /\ UNCHANGED <<now, cache, realmURLs, mu, args, realmURL, ret, calls, probes,
                 exchanges, hist, offlineSeen, offlineFailed, everStale>>
  /\ UNCHANGED <<msg, pure, idleConns, closedBusy, origin>>

\* A faulty variant: after a failed refresh, callers that find no valid
\* entry are given the failure without an attempt of their own.
WCheck_rememberFailure(g) ==
  /\ pc[g] = "wcheck"
  /\ LET cached == Lookup(cacheKeyOf[args[g].token])
     IN /\ races' = races \cup
                    (IF HoldsRead(g) \/ HoldsWrite(g) THEN {} ELSE {"cache read"})
        /\ IF Fresh(cached, now)
           THEN /\ ret' = [ret EXCEPT ![g] = [value |-> cached.accessToken, err |-> "nil"]]
                /\ pc' = [pc EXCEPT ![g] = "done"]
                /\ mu' = [mu EXCEPT !.writers = @ \ {g}]
           ELSE IF offlineFailed
           THEN /\ ret' = [ret EXCEPT ![g] = [value |-> <<>>, err |-> "ErrRefreshFailed"]]
                /\ pc' = [pc EXCEPT ![g] = "done"]
                /\ mu' = [mu EXCEPT !.writers = @ \ {g}]
           ELSE /\ pc' = [pc EXCEPT ![g] = "getrealm"]
                /\ UNCHANGED <<ret, mu>>
  /\ UNCHANGED <<now, cache, realmURLs, args, realmURL, calls, probes, exchanges,
                 hist, offlineSeen, offlineFailed, everStale>>
  /\ UNCHANGED <<msg, pure, idleConns, closedBusy, origin>>

\* Lines 588-593: the double check under the write lock.
WCheck(g) ==
  /\ pc[g] = "wcheck"
  /\ LET cached == Lookup(cacheKeyOf[args[g].token])
     IN /\ races' = races \cup
                    (IF HoldsRead(g) \/ HoldsWrite(g) THEN {} ELSE {"cache read"})
        /\ IF Fresh(cached, now)
           THEN /\ ret' = [ret EXCEPT ![g] = [value |-> cached.accessToken, err |-> "nil"]]
                /\ pc' = [pc EXCEPT ![g] = "done"]
                /\ mu' = [mu EXCEPT !.writers = @ \ {g}]
           ELSE /\ pc' = [pc EXCEPT ![g] = "getrealm"]
                /\ UNCHANGED <<ret, mu>>
  /\ UNCHANGED <<now, cache, realmURLs, args, realmURL, calls, probes, exchanges,
                 hist, offlineSeen, offlineFailed, everStale>>
  /\ UNCHANGED <<msg, pure, idleConns, closedBusy, origin>>

\* A faulty variant: the write lock is given up while the probe is out.
GetRealm_unlocked(g) ==
  /\ pc[g] = "getrealm"
  /\ LET cacheKey == realmKeyOf[args[g].cfg]
     IN /\ races' = races \cup (IF HoldsWrite(g) THEN {} ELSE {"realm read"})
        /\ IF cacheKey \in DOMAIN realmURLs
           THEN /\ realmURL' = [realmURL EXCEPT ![g] = realmURLs[cacheKey]]
                /\ pc' = [pc EXCEPT ![g] = "validate"]
                /\ UNCHANGED <<probes, hist, mu>>
           ELSE /\ probes < MaxProbes
                /\ probes' = probes + 1
                /\ hist' = [hist EXCEPT ![g].netCalls = @ + 1]
                /\ pc' = [pc EXCEPT ![g] = "probing"]
                /\ mu' = [mu EXCEPT !.writers = @ \ {g}]
                /\ UNCHANGED realmURL
  /\ UNCHANGED <<now, cache, realmURLs, args, ret, calls, exchanges,
                 offlineSeen, offlineFailed, everStale>>
  /\ UNCHANGED <<msg, pure, idleConns, closedBusy, origin>>

\* A faulty variant: the realm URL is discovered anew for every refresh.
GetRealm_alwaysProbe(g) ==
  /\ pc[g] = "getrealm"
  /\ races' = races \cup (IF HoldsWrite(g) THEN {} ELSE {"realm read"})
  /\ probes < MaxProbes
  /\ probes' = probes + 1
  /\ hist' = [hist EXCEPT ![g].netCalls = @ + 1]
  /\ pc' = [pc EXCEPT ![g] = "probing"]
  /\ UNCHANGED realmURL
  /\ UNCHANGED <<now, cache, realmURLs, mu, args, ret, calls, exchanges,
                 offlineSeen, offlineFailed, everStale>>
  /\ UNCHANGED <<msg, pure, idleConns, closedBusy, origin>>

\* Lines 617 and 808-817: getRealmURL up to the probe.  A cached realm URL
\* is used as it is; otherwise the probe goes out.
GetRealm(g) ==
  /\ pc[g] = "getrealm"
  /\ LET cacheKey == realmKeyOf[args[g].cfg]
     IN /\ races' = races \cup (IF HoldsWrite(g) THEN {} ELSE {"realm read"})
        /\ IF cacheKey \in DOMAIN realmURLs
           THEN /\ realmURL' = [realmURL EXCEPT ![g] = realmURLs[cacheKey]]
                /\ pc' = [pc EXCEPT ![g] = "validate"]
                /\ UNCHANGED <<probes, hist>>
           ELSE /\ probes < MaxProbes
                /\ probes' = probes + 1
                /\ hist' = [hist EXCEPT ![g].netCalls = @ + 1]
                /\ pc' = [pc EXCEPT ![g] = "probing"]
                /\ UNCHANGED realmURL
  /\ UNCHANGED <<now, cache, realmURLs, mu, args, ret, calls, exchanges,
                 offlineSeen, offlineFailed, everStale>>
  /\ UNCHANGED <<msg, pure, idleConns, closedBusy, origin>>

\* A faulty variant: a failed discovery is remembered for the target, as an
\* empty realm URL.
ProbeReturn_negativeCached(g, o) ==
  /\ pc[g] = "probing"
  /\ o.kind = "cancelled" => args[g].ctx = "done"
  /\ hist' = [hist EXCEPT ![g].probe = o]
  /\ LET cacheKey == realmKeyOf[args[g].cfg]
         found == discovered[o]
     IN IF found = Panic
        THEN /\ pc' = [pc EXCEPT ![g] = "panicked"]
             /\ mu' = [mu EXCEPT !.writers = @ \ {g}]
             /\ offlineFailed' = TRUE
             /\ UNCHANGED <<ret, msg, realmURLs, realmURL, races>>
        ELSE IF found = <<>>
        THEN /\ ret' = [ret EXCEPT ![g] = [value |-> <<>>, err |-> "ErrRealmDiscoveryFailed"]]
             /\ msg' = [msg EXCEPT ![g] =
                          <<ErrorText("ErrRealmDiscoveryFailed")>> \o discoveredError[o]]
             /\ pc' = [pc EXCEPT ![g] = "done"]
             /\ mu' = [mu EXCEPT !.writers = @ \ {g}]
             /\ offlineFailed' = TRUE
             /\ realmURLs' = (cacheKey :> found) @@ realmURLs
             /\ UNCHANGED <<realmURL, races>>
        ELSE /\ realmURLs' = (cacheKey :> found) @@ realmURLs
             /\ races' = races \cup (IF HoldsWrite(g) THEN {} ELSE {"realm write"})
             /\ realmURL' = [realmURL EXCEPT ![g] = found]
             /\ pc' = [pc EXCEPT ![g] = "validate"]
             /\ UNCHANGED <<ret, msg, mu, offlineFailed>>
  /\ UNCHANGED <<now, cache, args, calls, probes, exchanges, offlineSeen, everStale>>
  /\ UNCHANGED <<pure, idleConns, closedBusy, origin>>

\* Lines 817-825 and 617-620: the probe comes back.  A failure is returned
\* as ErrRealmDiscoveryFailed with the error of discoverRealmURL as its
\* cause; a realm URL is stored before it is returned.  A panic in the
\* header parser unwinds the call: the deferred Unlock of line 586 runs and
\* the call returns nothing.
ProbeReturn(g, o) ==
  /\ pc[g] = "probing"
  /\ o.kind = "cancelled" => args[g].ctx = "done"
  /\ hist' = [hist EXCEPT ![g].probe = o]
  /\ LET cacheKey == realmKeyOf[args[g].cfg]
         found == discovered[o]
     IN IF found = Panic
        THEN /\ pc' = [pc EXCEPT ![g] = "panicked"]
             /\ mu' = [mu EXCEPT !.writers = @ \ {g}]
             /\ offlineFailed' = TRUE
             /\ UNCHANGED <<ret, msg, realmURLs, realmURL, races>>
        ELSE IF found = <<>>
        THEN /\ ret' = [ret EXCEPT ![g] = [value |-> <<>>, err |-> "ErrRealmDiscoveryFailed"]]
             /\ msg' = [msg EXCEPT ![g] =
                          <<ErrorText("ErrRealmDiscoveryFailed")>> \o discoveredError[o]]
             /\ pc' = [pc EXCEPT ![g] = "done"]
             /\ mu' = [mu EXCEPT !.writers = @ \ {g}]
             /\ offlineFailed' = TRUE
             /\ UNCHANGED <<realmURLs, realmURL, races>>
        ELSE /\ realmURLs' = (cacheKey :> found) @@ realmURLs
             /\ races' = races \cup (IF HoldsWrite(g) THEN {} ELSE {"realm write"})
             /\ realmURL' = [realmURL EXCEPT ![g] = found]
             /\ pc' = [pc EXCEPT ![g] = "validate"]
             /\ UNCHANGED <<ret, msg, mu, offlineFailed>>
  /\ UNCHANGED <<now, cache, args, calls, probes, exchanges, offlineSeen, everStale>>
  /\ UNCHANGED <<pure, idleConns, closedBusy, origin>>

\* A faulty variant: the result of validateRealmURL is not acted on.
Validate_ignored(g) ==
  /\ pc[g] = "validate"
  /\ exchanges < MaxExchanges
  /\ exchanges' = exchanges + 1
  /\ hist' = [hist EXCEPT
                ![g].validated =
                   [url |-> realmURL[g], host |-> args[g].cfg.Host,
                    res |-> validated[realmURL[g], args[g].cfg]],
                ![g].netCalls = @ + 1,
                ![g].exchRealm = realmURL[g]]
  /\ pc' = [pc EXCEPT ![g] = "exchanging"]
  /\ UNCHANGED <<now, cache, realmURLs, mu, args, realmURL, ret, calls, probes,
                 races, offlineSeen, offlineFailed, everStale>>
  /\ UNCHANGED <<msg, pure, idleConns, closedBusy, origin>>

\* Lines 622-651: validateRealmURL on the realm URL and cfg.Host; a
\* rejected URL ends the call with ErrInvalidRealmURL, an accepted one is
\* joined with the token path and the refresh-token grant is sent to it.
\* (url.JoinPath cannot fail on a URL that url.Parse has just accepted.)
Validate(g) ==
  /\ pc[g] = "validate"
  /\ LET res == validated[realmURL[g], args[g].cfg]
         seen == [url |-> realmURL[g], host |-> args[g].cfg.Host, res |-> res]
     IN IF res # "nil"
        THEN /\ ret' = [ret EXCEPT ![g] = [value |-> <<>>, err |-> "ErrInvalidRealmURL"]]
             /\ msg' = [msg EXCEPT ![g] = <<ErrorText("ErrInvalidRealmURL"), res>>]
             /\ pc' = [pc EXCEPT ![g] = "done"]
             /\ mu' = [mu EXCEPT !.writers = @ \ {g}]
             /\ hist' = [hist EXCEPT ![g].validated = seen]
             /\ offlineFailed' = TRUE
             /\ UNCHANGED exchanges
        ELSE /\ exchanges < MaxExchanges
             /\ exchanges' = exchanges + 1
             /\ hist' = [hist EXCEPT ![g].validated = seen,
                                     ![g].netCalls = @ + 1,
                                     ![g].exchRealm = realmURL[g]]
             /\ pc' = [pc EXCEPT ![g] = "exchanging"]
             /\ UNCHANGED <<ret, msg, mu, offlineFailed>>
  /\ UNCHANGED <<now, cache, realmURLs, args, realmURL, calls, probes, races,
                 offlineSeen, everStale>>
  /\ UNCHANGED <<pure, idleConns, closedBusy, origin>>

\* The access token the identity provider issues for its n-th request.
IssuedToken(n) == <<"a">> \o FormatDecimal(n)

\* A faulty variant: a cancelled request returns with the write lock held.
ExchangeReturn_lockKept(g, o) ==
  /\ pc[g] = "exchanging"
  /\ o.kind = "cancelled" => args[g].ctx = "done"
  /\ pc' = [pc EXCEPT ![g] = "done"]
  /\ mu' = IF o.kind = "cancelled" THEN mu ELSE [mu EXCEPT !.writers = @ \ {g}]
  /\ IF o.kind \in {"error", "cancelled"}
     THEN LET wrapped == wrapOAuthError(ErrorOf(o.cause))
          IN /\ ret' = [ret EXCEPT ![g] = [value |-> <<>>, err |-> wrapped.err]]
             /\ msg' = [msg EXCEPT ![g] = wrapped.text]
             /\ offlineFailed' = TRUE
             /\ UNCHANGED origin
             /\ UNCHANGED <<cache, races, everStale>>
     ELSE LET accessToken == IssuedToken(exchanges)
              expiresAt == IF o.kind = "noexpiry" THEN ZeroTime ELSE now + o.offset
          IN /\ cache' = (cacheKeyOf[args[g].token] :>
                            [accessToken |-> accessToken, expiresAt |-> expiresAt])
                         @@ cache
             /\ races' = races \cup (IF HoldsWrite(g) THEN {} ELSE {"cache write"})
             /\ everStale' = (everStale \/ ~Before(now + tokenRefreshBuffer, expiresAt))
             /\ ret' = [ret EXCEPT ![g] = [value |-> accessToken, err |-> "nil"]]
             /\ origin' = (accessToken :>
                             [token |-> args[g].token, cfg |-> args[g].cfg,
                              realm |-> hist[g].exchRealm])
                          @@ origin
             /\ UNCHANGED <<offlineFailed, msg>>
  /\ idleConns' = IF o.kind = "cancelled" THEN idleConns ELSE 1
  /\ hist' = [hist EXCEPT ![g].exchange = o.kind]
  /\ UNCHANGED <<now, realmURLs, args, realmURL, calls, probes, exchanges,
                 offlineSeen>>
  /\ UNCHANGED <<pure, closedBusy>>

\* A faulty variant: a failed request removes the cache entry of the token.
ExchangeReturn_evictOnError(g, o) ==
  /\ pc[g] = "exchanging"
  /\ o.kind = "cancelled" => args[g].ctx = "done"
  /\ pc' = [pc EXCEPT ![g] = "done"]
  /\ mu' = [mu EXCEPT !.writers = @ \ {g}]
  /\ IF o.kind \in {"error", "cancelled"}
     THEN LET wrapped == wrapOAuthError(ErrorOf(o.cause))
          IN /\ ret' = [ret EXCEPT ![g] = [value |-> <<>>, err |-> wrapped.err]]
             /\ msg' = [msg EXCEPT ![g] = wrapped.text]
             /\ offlineFailed' = TRUE
             /\ UNCHANGED origin
             /\ cache' = [k \in DOMAIN cache \ {cacheKeyOf[args[g].token]} |-> cache[k]]
             /\ UNCHANGED <<races, everStale>>
     ELSE LET accessToken == IssuedToken(exchanges)
              expiresAt == IF o.kind = "noexpiry" THEN ZeroTime ELSE now + o.offset
          IN /\ cache' = (cacheKeyOf[args[g].token] :>
                            [accessToken |-> accessToken, expiresAt |-> expiresAt])
                         @@ cache
             /\ races' = races \cup (IF HoldsWrite(g) THEN {} ELSE {"cache write"})
             /\ everStale' = (everStale \/ ~Before(now + tokenRefreshBuffer, expiresAt))
             /\ ret' = [ret EXCEPT ![g] = [value |-> accessToken, err |-> "nil"]]
             /\ origin' = (accessToken :>
                             [token |-> args[g].token, cfg |-> args[g].cfg,
                              realm |-> hist[g].exchRealm])
                          @@ origin
             /\ UNCHANGED <<offlineFailed, msg>>
  /\ idleConns' = IF o.kind = "cancelled" THEN idleConns ELSE 1
  /\ hist' = [hist EXCEPT ![g].exchange = o.kind]
  /\ UNCHANGED <<now, realmURLs, args, realmURL, calls, probes, exchanges,
                 offlineSeen>>
  /\ UNCHANGED <<pure, closedBusy>>

\* A faulty variant: the new token is returned and not stored.
ExchangeReturn_noStore(g, o) ==
  /\ pc[g] = "exchanging"
  /\ o.kind = "cancelled" => args[g].ctx = "done"
  /\ pc' = [pc EXCEPT ![g] = "done"]
  /\ mu' = [mu EXCEPT !.writers = @ \ {g}]
  /\ IF o.kind \in {"error", "cancelled"}
     THEN LET wrapped == wrapOAuthError(ErrorOf(o.cause))
          IN /\ ret' = [ret EXCEPT ![g] = [value |-> <<>>, err |-> wrapped.err]]
             /\ msg' = [msg EXCEPT ![g] = wrapped.text]
             /\ offlineFailed' = TRUE
             /\ UNCHANGED origin
             /\ UNCHANGED <<cache, races, everStale>>
     ELSE LET accessToken == IssuedToken(exchanges)
              expiresAt == IF o.kind = "noexpiry" THEN ZeroTime ELSE now + o.offset
          IN /\ UNCHANGED <<cache, races, everStale>>
             /\ ret' = [ret EXCEPT ![g] = [value |-> accessToken, err |-> "nil"]]
             /\ origin' = (accessToken :>
                             [token |-> args[g].token, cfg |-> args[g].cfg,
                              realm |-> hist[g].exchRealm])
                          @@ origin
             /\ UNCHANGED <<offlineFailed, msg>>
  /\ idleConns' = IF o.kind = "cancelled" THEN idleConns ELSE 1
  /\ hist' = [hist EXCEPT ![g].exchange = o.kind]
  /\ UNCHANGED <<now, realmURLs, args, realmURL, calls, probes, exchanges,
                 offlineSeen>>
  /\ UNCHANGED <<pure, closedBusy>>

\* A faulty variant: a failed request leaves an entry without a token.
ExchangeReturn_blankOnError(g, o) ==
  /\ pc[g] = "exchanging"
  /\ o.kind = "cancelled" => args[g].ctx = "done"
  /\ pc' = [pc EXCEPT ![g] = "done"]
  /\ mu' = [mu EXCEPT !.writers = @ \ {g}]
  /\ IF o.kind \in {"error", "cancelled"}
     THEN LET wrapped == wrapOAuthError(ErrorOf(o.cause))
          IN /\ ret' = [ret EXCEPT ![g] = [value |-> <<>>, err |-> wrapped.err]]
             /\ msg' = [msg EXCEPT ![g] = wrapped.text]
             /\ offlineFailed' = TRUE
             /\ UNCHANGED origin
             /\ cache' = (cacheKeyOf[args[g].token] :>
                            [accessToken |-> <<>>, expiresAt |-> ZeroTime])
                         @@ cache
             /\ UNCHANGED <<races, everStale>>
     ELSE LET accessToken == IssuedToken(exchanges)
              expiresAt == IF o.kind = "noexpiry" THEN ZeroTime ELSE now + o.offset
          IN /\ cache' = (cacheKeyOf[args[g].token] :>
                            [accessToken |-> accessToken, expiresAt |-> expiresAt])
                         @@ cache
             /\ races' = races \cup (IF HoldsWrite(g) THEN {} ELSE {"cache write"})
             /\ everStale' = (everStale \/ ~Before(now + tokenRefreshBuffer, expiresAt))
             /\ ret' = [ret EXCEPT ![g] = [value |-> accessToken, err |-> "nil"]]
             /\ origin' = (accessToken :>
                             [token |-> args[g].token, cfg |-> args[g].cfg,
                              realm |-> hist[g].exchRealm])
                          @@ origin
             /\ UNCHANGED <<offlineFailed, msg>>
  /\ idleConns' = IF o.kind = "cancelled" THEN idleConns ELSE 1
  /\ hist' = [hist EXCEPT ![g].exchange = o.kind]
  /\ UNCHANGED <<now, realmURLs, args, realmURL, calls, probes, exchanges,
                 offlineSeen>>
  /\ UNCHANGED <<pure, closedBusy>>

\* Lines 651-656 and 596-607: the token request comes back.  An error goes
\* through wrapOAuthError and is returned; a token is stored under the hash
\* of the refresh token with the expiry the provider reports, and returned.
\* The connection of an answered request stays with the transport, idle.
ExchangeReturn(g, o) ==
  /\ pc[g] = "exchanging"
  /\ o.kind = "cancelled" => args[g].ctx = "done"
  /\ pc' = [pc EXCEPT ![g] = "done"]
  /\ mu' = [mu EXCEPT !.writers = @ \ {g}]
  /\ IF o.kind \in {"error", "cancelled"}
     THEN LET wrapped == wrapOAuthError(ErrorOf(o.cause))
          IN /\ ret' = [ret EXCEPT ![g] = [value |-> <<>>, err |-> wrapped.err]]
             /\ msg' = [msg EXCEPT ![g] = wrapped.text]
             /\ offlineFailed' = TRUE
             /\ UNCHANGED origin
             /\ UNCHANGED <<cache, races, everStale>>
     ELSE LET accessToken == IssuedToken(exchanges)
              expiresAt == IF o.kind = "noexpiry" THEN ZeroTime ELSE now + o.offset
          IN /\ cache' = (cacheKeyOf[args[g].token] :>
                            [accessToken |-> accessToken, expiresAt |-> expiresAt])
                         @@ cache
             /\ races' = races \cup (IF HoldsWrite(g) THEN {} ELSE {"cache write"})
             /\ everStale' = (everStale \/ ~Before(now + tokenRefreshBuffer, expiresAt))
             /\ ret' = [ret EXCEPT ![g] = [value |-> accessToken, err |-> "nil"]]
             /\ origin' = (accessToken :>
                             [token |-> args[g].token, cfg |-> args[g].cfg,
                              realm |-> hist[g].exchRealm])
                          @@ origin
             /\ UNCHANGED <<offlineFailed, msg>>
  /\ idleConns' = IF o.kind = "cancelled" THEN idleConns ELSE 1
  /\ hist' = [hist EXCEPT ![g].exchange = o.kind]
  /\ UNCHANGED <<now, realmURLs, args, realmURL, calls, probes, exchanges,
                 offlineSeen>>
  /\ UNCHANGED <<pure, closedBusy>>

\* A faulty variant: Close takes the write lock for its work.
Close_locked ==
  /\ CanLock
  /\ idleConns' = 0
  /\ closedBusy' = (closedBusy \/ \E g \in Callers :
                                   HoldsWrite(g) /\ pc[g] \in {"probing", "exchanging"})
  /\ UNCHANGED <<now, cache, realmURLs, mu, pc, args, realmURL, ret, msg, calls,
                 probes, exchanges, hist, races, offlineSeen, offlineFailed,
                 everStale, pure, origin>>

\* Close, lines 512-514: the idle connections of t.httpClient are closed.
Close ==
  /\ idleConns' = 0
  /\ closedBusy' = (closedBusy \/ \E g \in Callers :
                                   HoldsWrite(g) /\ pc[g] \in {"probing", "exchanging"})
  /\ UNCHANGED <<now, cache, realmURLs, mu, pc, args, realmURL, ret, msg, calls,
                 probes, exchanges, hist, races, offlineSeen, offlineFailed,
                 everStale, pure, origin>>

\* The context of a call in progress is cancelled, or its deadline passes.
Cancel(g) ==
  /\ pc[g] \in {"rlock", "rcheck", "wlock", "wcheck", "getrealm", "probing",
                "validate", "exchanging"}
  /\ args[g].ctx = "live"
  /\ args' = [args EXCEPT ![g].ctx = "done"]
  /\ UNCHANGED <<now, cache, realmURLs, mu, pc, realmURL, ret, msg, calls, probes,
                 exchanges, hist, races, offlineSeen, offlineFailed, everStale,
                 pure, idleConns, closedBusy, origin>>

\* The caller takes the result; the goroutine is free for its next call.
Return(g) ==
  /\ pc[g] = "done"
  /\ pc' = [pc EXCEPT ![g] = "idle"]
  /\ args' = [args EXCEPT ![g] = NoArgs]
  /\ realmURL' = [realmURL EXCEPT ![g] = <<>>]
  /\ ret' = [ret EXCEPT ![g] = NoRet]
  /\ msg' = [msg EXCEPT ![g] = <<>>]
  /\ hist' = [hist EXCEPT ![g] = NoHist]
  /\ UNCHANGED <<now, cache, realmURLs, mu, calls, probes, exchanges, races,
                 offlineSeen, offlineFailed, everStale>>
  /\ UNCHANGED <<pure, idleConns, closedBusy, origin>>

\* Time passes.
Tick ==
  /\ now + TimeStep <= MaxTime
  /\ now' = now + TimeStep
  /\ everStale' = (everStale \/ \E k \in DOMAIN cache :
                                   ~Before(now' + tokenRefreshBuffer, cache[k].expiresAt))
  /\ UNCHANGED <<cache, realmURLs, mu, pc, args, realmURL, ret, calls, probes,
                 exchanges, hist, races, offlineSeen, offlineFailed>>
  /\ UNCHANGED <<msg, pure, idleConns, closedBusy, origin>>

\* The steps of the goroutines G whose calls present tokens of T, whose
\* probes are answered from Os and whose token requests from Es.
StepWith(G, T, Os, Es) ==
  \/ \E g \in G, tok \in T, c \in Configs : Begin(g, tok, c)
  \/ \E g \in G : RLock(g)
  \/ \E g \in G : RCheck(g)
  \/ \E g \in G : Lock(g)
  \/ \E g \in G : WCheck(g)
  \/ \E g \in G : GetRealm(g)
  \/ \E g \in G, o \in Os : ProbeReturn(g, o)
  \/ \E g \in G : Validate(g)
  \/ \E g \in G, o \in Es : ExchangeReturn(g, o)
  \/ \E g \in G : Return(g)
  \/ Tick

StepOn(G, T, Os) == StepWith(G, T, Os, ExchangeOutcomes)
Step(G, T) == StepOn(G, T, ProbeOutcomes)

\* Concurrent callers, presenting the offline tokens and one access token.
Next == Step(Callers, ConcurrentTokens)
Spec == Init /\ [][Next]_vars

\* One caller, presenting every token of the model.
NextInspect == Step({1}, Tokens)
SpecInspect == Init /\ [][NextInspect]_vars

\* One caller with one offline token, and every answer of the probe.
NextProbe == StepOn({1}, {TokOfflineA}, AllProbeOutcomes)
SpecProbe == Init /\ [][NextProbe]_vars

\* Concurrent callers with one offline token, whose contexts can end during
\* the call, with the results of the probe and of the token request that a
\* context at its end produces, and Close.
CancelProbeOutcomes ==
  {o \in AllProbeOutcomes : o.kind = "cancelled" \/ o.header = HdrProd}
CancelExchangeOutcomes ==
  {o \in AllExchangeOutcomes : o.kind \in {"cancelled", "token"}}
NextClose ==
  \/ StepWith(Callers, {TokOfflineA}, CancelProbeOutcomes, CancelExchangeOutcomes)
  \/ \E g \in Callers : Cancel(g)
  \/ Close
SpecClose == Init /\ [][NextClose]_vars

\* Concurrent callers with one offline token under fair scheduling: a
\* goroutine that can take its next step takes it, sync.RWMutex lets a
\* goroutine that waits for it in when it stays free, and every probe and
\* every token request comes back.
FairProbeOutcomes == {o \in ProbeOutcomes : o.kind = "transport" \/ o.header = HdrProd}
FairExchangeOutcomes == {o \in ExchangeOutcomes : o.kind \in {"error", "token"}}
NextFair == StepWith(Callers, {TokOfflineA}, FairProbeOutcomes, FairExchangeOutcomes)
\* The step of g that waits for the mutex, and its other steps up to the
\* return; at most one of them is enabled at a time.
Acquire(g) == RLock(g) \/ Lock(g)
Proceed(g) ==
  \/ RCheck(g) \/ WCheck(g) \/ GetRealm(g) \/ Validate(g)
  \/ \E o \in FairProbeOutcomes : ProbeReturn(g, o)
  \/ \E o \in FairExchangeOutcomes : ExchangeReturn(g, o)
\* Where Proceed(g) can be taken: between its steps g waits for nothing but
\* the answer of a server, and the two counters are the bounds of the model.
CanProceed(g) ==
  \/ pc[g] \in {"rcheck", "wcheck", "probing", "exchanging"}
  \/ pc[g] = "getrealm" /\ probes < MaxProbes
  \/ pc[g] = "validate" /\ exchanges < MaxExchanges
\* Weak fairness for the mutex, and weak fairness for Proceed(g) with
\* CanProceed(g), which implies ENABLED <<Proceed(g)>>_vars, in its place:
\* the condition asks no more of the scheduler than WF_vars(Proceed(g)).
Fairness ==
  \A g \in Callers :
    /\ WF_vars(Acquire(g))
    /\ ([]<>~CanProceed(g)) \/ ([]<><<Proceed(g)>>_vars)
SpecFair == Init /\ [][NextFair]_vars /\ Fairness

(***************************************************************************)
(* wrapOAuthError applied on its own, to nil and to error texts put        *)
(* together from the error codes and other words.                          *)
(***************************************************************************)
WrapWords ==
  {InvalidGrant, InvalidClient, UnauthorizedClient, InvalidGrantUpper, InvalidPrefix}
MaxWords == 3
WrapTexts == UNION {[1..n -> WrapWords] : n \in 0..MaxWords}
\* The words one after another, each followed by a space.
RECURSIVE SpellOut(_)
SpellOut(ws) ==
  IF Len(ws) = 0 THEN <<>> ELSE Head(ws) \o <<" ">> \o SpellOut(Tail(ws))
WrapInputs == {NilError} \cup {ErrorOf(SpellOut(ws)) : ws \in WrapTexts}

InitWrap ==
  /\ Constructed
  /\ pure \in {[fn |-> "wrapOAuthError", in |-> i, done |-> FALSE, out |-> <<>>] :
                 i \in WrapInputs}

\* err = t.wrapOAuthError(err)
ApplyWrap ==
  /\ pure.fn = "wrapOAuthError" /\ ~pure.done
  /\ pure' = [pure EXCEPT !.done = TRUE, !.out = wrapOAuthError(pure.in)]
  /\ UNCHANGED <<now, cache, realmURLs, mu, pc, args, realmURL, ret, msg, calls,
                 probes, exchanges, hist, races, offlineSeen, offlineFailed,
                 everStale, idleConns, closedBusy, origin>>

SpecWrap == InitWrap /\ [][ApplyWrap]_vars

(***************************************************************************)
(* validateRealmURL applied on its own, to realm URLs put together from a  *)
(* scheme, a userinfo, a host and a port, and to expected hosts.           *)
(***************************************************************************)
SchemeHTTPS == <<"h", "t", "t", "p", "s">>
SchemeHTTP == <<"h", "t", "t", "p">>
SchemeFTP == <<"f", "t", "p">>
Schemes == {SchemeHTTPS, SchemeHTTP, SchemeFTP, <<>>}
UserInfos == {<<>>, <<"u">>, <<"u", ":", "p">>, <<"@">>}
Ports == {<<>>, <<"8", "0", "8", "0">>, <<"x">>}

HostAuth == <<"a", ".", "e", "x", ".", "c", "o">>
HostBase == <<"e", "x", ".", "c", "o">>
HostAttacker == <<"a", ".", "a", "t", ".", "c", "o">>
HostUpper == <<"a", ".", "E", "B", ".", "B", "E">>
HostLower == <<"m", ".", "e", "b", ".", "b", "e">>
HostSubLocal == <<"a", ".", "l", "o", "c", "a", "l", "h", "o", "s", "t">>
IPLoopback == <<"1", "2", "7", ".", "0", ".", "0", ".", "1">>
IPPrivate10 == <<"1", "0", ".", "0", ".", "0", ".", "1">>
IPPrivate172 == <<"1", "7", "2", ".", "1", "6", ".", "0", ".", "1">>
IPPrivate192 == <<"1", "9", "2", ".", "1", "6", "8", ".", "1", ".", "1">>
IPLinkLocal == <<"1", "6", "9", ".", "2", "5", "4", ".", "1", ".", "1">>
IPUnspecified == <<"0", ".", "0", ".", "0", ".", "0">>
IPPublic == <<"8", ".", "8", ".", "8", ".", "8">>
\* A public address that ends in the last two labels of 127.0.0.1.
IPPublicLikeLoopback == <<"8", ".", "8", ".", "0", ".", "1">>

LoopbackHosts == {HostLocal, IPLoopback}
ReservedIPs == {IPPrivate10, IPPrivate172, IPPrivate192, IPLinkLocal, IPUnspecified}
NamedHosts == {HostAuth, HostBase, HostAttacker, HostUpper, HostSubLocal, HostLocal}
RealmHosts == NamedHosts \cup ReservedIPs \cup {IPLoopback, IPPublic, IPPublicLikeLoopback}
ExpectedHosts ==
  {HostProd, HostLocal, IPLoopback, IPPrivate10, IPPrivate192, HostLower, HostAttacker}

ValidateInputs ==
  [scheme : Schemes, user : UserInfos, host : RealmHosts, port : Ports,
   expectedHost : ExpectedHosts]

\* The realm URL with these parts: scheme://user@host:port/r
BuildURL(i) ==
  (IF i.scheme = <<>> THEN <<>> ELSE i.scheme \o <<":", "/", "/">>)
  \o (IF i.user = <<>> THEN <<>>
      ELSE IF i.user = <<"@">> THEN <<"@">> ELSE i.user \o <<"@">>)
  \o i.host
  \o (IF i.port = <<>> THEN <<>> ELSE <<":">> \o i.port)
  \o <<"/", "r">>

InitValidate ==
  /\ Constructed
  /\ pure \in {[fn |-> "validateRealmURL", in |-> i, done |-> FALSE, out |-> <<>>] :
                 i \in ValidateInputs}

\* err := t.validateRealmURL(realmURL, expectedHost)
ApplyValidate ==
  /\ pure.fn = "validateRealmURL" /\ ~pure.done
  /\ pure' = [pure EXCEPT
               !.done = TRUE,
               !.out = validateRealmURL(BuildURL(pure.in), pure.in.expectedHost)]
  /\ UNCHANGED <<now, cache, realmURLs, mu, pc, args, realmURL, ret, msg, calls,
                 probes, exchanges, hist, races, offlineSeen, offlineFailed,
                 everStale, idleConns, closedBusy, origin>>

SpecValidate == InitValidate /\ [][ApplyValidate]_vars

(***************************************************************************)
(* extractRealmFromWWWAuthenticate applied on its own, to headers put      *)
(* together from a scheme prefix, a realm parameter and what follows it.   *)
(***************************************************************************)
Quote == <<"\"">>
ErrorParam == <<"e", "r", "r", "o", "r", "=", "\"", "x", "\"">>
RealmComma == RealmProd \o <<",", "x">>
ExtractPrefixes ==
  {BearerPrefix, <<"B", "a", "s", "i", "c", " ">>,
   <<"b", "e", "a", "r", "e", "r", " ">>, <<>>}
ExtractValues == {RealmProd, RealmLocal, RealmComma, <<>>, Quote}
ExtractAfters == {<<>>, <<",", " ">> \o ErrorParam, <<" ", ",">> \o ErrorParam}
\* form: the realm value in quotes, bare, or no realm parameter at all.  A
\* bare value with a comma would read as a shorter value and a parameter.
ExtractInputs ==
  {i \in [prefix : ExtractPrefixes, form : {"quoted", "bare", "none"},
          value : ExtractValues, after : ExtractAfters] :
     ~(i.form = "bare" /\ i.value = RealmComma)}

BuildHeader(i) ==
  i.prefix
  \o (IF i.form = "quoted" THEN RealmKey \o <<"=">> \o Quote \o i.value \o Quote
      ELSE IF i.form = "bare" THEN RealmKey \o <<"=">> \o i.value
      ELSE ErrorParam)
  \o i.after

InitExtract ==
  /\ Constructed
  /\ pure \in {[fn |-> "extractRealmFromWWWAuthenticate", in |-> i, done |-> FALSE,
                 out |-> <<>>] : i \in ExtractInputs}

\* realmURL := extractRealmFromWWWAuthenticate(header)
ApplyExtract ==
  /\ pure.fn = "extractRealmFromWWWAuthenticate" /\ ~pure.done
  /\ pure' = [pure EXCEPT
               !.done = TRUE,
               !.out = extractRealmFromWWWAuthenticate(BuildHeader(pure.in))]
  /\ UNCHANGED <<now, cache, realmURLs, mu, pc, args, realmURL, ret, msg, calls,
                 probes, exchanges, hist, races, offlineSeen, offlineFailed,
                 everStale, idleConns, closedBusy, origin>>

SpecExtract == InitExtract /\ [][ApplyExtract]_vars

(***************************************************************************)
(* Properties.                                                             *)
(***************************************************************************)
\* The token decodes and its typ claim is the offline marker.
IsOfflineTok(tok) == parsed[tok].ok /\ parsed[tok].claims.typ = offlineTokenType
\* The token decodes and its typ claim is not the offline marker.
IsAccessTok(tok) == parsed[tok].ok /\ parsed[tok].claims.typ # offlineTokenType
\* Goroutine g starts a call in this step.
Starts(g) == pc[g] = "idle" /\ pc'[g] # "idle"
InRefresh(g) == pc[g] \in {"wcheck", "getrealm", "probing", "validate", "exchanging"}
InFlight(g) == pc[g] \in {"probing", "exchanging"}
IsHex(s) == \A i \in 1..Len(s) : \E j \in 1..16 : HexDigits[j] = s[i]

\* C1: as long as one offline token is the only one presented, no call has
\* failed and no cache entry has come within the buffer of its expiry, at
\* most one exchange request has been sent, and every caller that has
\* returned has returned the same access token, obtained by that one
\* exchange.
C1_SingleExchange ==
  (Cardinality(offlineSeen) = 1 /\ ~offlineFailed /\ ~everStale) =>
    /\ exchanges <= 1
    /\ \A g \in Callers :
         (pc[g] = "done" /\ IsOfflineTok(args[g].token)) =>
           /\ exchanges = 1
           /\ ret[g] = [value |-> IssuedToken(1), err |-> "nil"]

\* C1 witness: every caller has returned the one token, and one of them
\* started on an empty cache and yet made no network call of its own.
C1_Witness ==
  /\ Cardinality(offlineSeen) = 1 /\ ~offlineFailed /\ ~everStale
  /\ exchanges = 1
  /\ \A g \in Callers : pc[g] = "done" /\ ret[g] = [value |-> IssuedToken(1), err |-> "nil"]
  /\ \E g \in Callers : ~hist[g].snap.present /\ hist[g].netCalls = 0

\* C2: while a caller's probe or exchange for one offline token is in
\* flight, a caller with another offline token whose cache entry is still
\* valid can take the read lock.
C2_ReadNotBlocked ==
  \A a, b \in Callers :
    (/\ InFlight(a)
     /\ pc[b] = "rlock"
     /\ args[a].token # args[b].token
     /\ Lookup(cacheKeyOf[args[b].token]).present
     /\ now + tokenRefreshBuffer < Lookup(cacheKeyOf[args[b].token]).expiresAt)
    => CanRLock

\* C3: an exchange request is in flight only after validateRealmURL has
\* accepted, in the same call, the realm URL the request goes to together
\* with the call's cfg.Host; a call whose validation failed has returned
\* ErrInvalidRealmURL and has sent no exchange request.
C3_ValidatedBeforeExchange ==
  \A g \in Callers :
    /\ pc[g] = "exchanging" =>
         /\ hist[g].validated =
              [url |-> hist[g].exchRealm, host |-> args[g].cfg.Host, res |-> "nil"]
         /\ hist[g].exchRealm = realmURL[g]
    /\ ~(hist[g].validated.res \in {"none", "nil"}) =>
         /\ pc[g] = "done"
         /\ ret[g] = [value |-> <<>>, err |-> "ErrInvalidRealmURL"]
         /\ hist[g].exchRealm = <<>>

\* C3 witness: an exchange in flight whose realm URL came from the realm
\* cache (the exchange is the call's only network call).
C3_Witness ==
  \E g \in Callers :
    /\ pc[g] = "exchanging"
    /\ hist[g].netCalls = 1
    /\ hist[g].validated.res = "nil"

\* C4: a call with an offline token that started with a cache entry for it
\* and returns while now + 60s is still before that entry's expiry returns
\* the entry's access token and has made no network call.
C4_CachedNoNetwork ==
  \A g \in Callers :
    (/\ pc[g] = "done"
     /\ IsOfflineTok(args[g].token)
     /\ hist[g].snap.present
     /\ now + tokenRefreshBuffer < hist[g].snap.expiresAt)
    => /\ ret[g] = [value |-> hist[g].snap.accessToken, err |-> "nil"]
       /\ hist[g].netCalls = 0

C4_Witness ==
  \E g \in Callers :
    /\ pc[g] = "done"
    /\ IsOfflineTok(args[g].token)
    /\ hist[g].snap.present
    /\ now + tokenRefreshBuffer < hist[g].snap.expiresAt
    /\ ret[g].value = hist[g].snap.accessToken
    /\ probes = 1 /\ exchanges = 1

\* C5: a call with a decodable token whose typ claim is the offline marker
\* goes to the cache lookup whatever its exp claim is; it never returns
\* ErrTokenExpired and never returns the offline token itself.
C5_OfflineIgnoresExpiry ==
  [][\A g \in Callers :
       /\ (Starts(g) /\ IsOfflineTok(args'[g].token)) => pc'[g] = "rlock"
       /\ (pc'[g] # "idle" /\ IsOfflineTok(args'[g].token)) =>
            /\ ret'[g].err # "ErrTokenExpired"
            /\ ret'[g].value # args'[g].token]_vars

\* C5 witness: the offline token whose exp claim lies in the past has been
\* exchanged for an access token.
C5_Witness ==
  \E g \in Callers :
    /\ pc[g] = "done"
    /\ args[g].token = TokOfflineB
    /\ parsed[TokOfflineB].claims.hasExp
    /\ parsed[TokOfflineB].claims.exp < now
    /\ ret[g].err = "nil"
    /\ ret[g].value # <<>>

\* C6: a call with a decodable token that is not an offline token and
\* whose exp claim is absent or later than now + 60s returns the token
\* itself and no error.
C6_ValidAccessReturned ==
  [][\A g \in Callers :
       (/\ Starts(g)
        /\ IsAccessTok(args'[g].token)
        /\ \/ ~parsed[args'[g].token].claims.hasExp
           \/ parsed[args'[g].token].claims.exp > now + tokenRefreshBuffer)
       => /\ pc'[g] = "done"
          /\ ret'[g] = [value |-> args'[g].token, err |-> "nil"]]_vars

C6_Witness ==
  \E g \in Callers :
    /\ pc[g] = "done"
    /\ args[g].token = TokAccess150
    /\ parsed[TokAccess150].claims.exp > now + tokenRefreshBuffer
    /\ ret[g] = [value |-> TokAccess150, err |-> "nil"]

\* C7: a call with a decodable token that is not an offline token and
\* whose exp claim is at or before now + 60s fails with ErrTokenExpired.
C7_ExpiredAtOrBeforeBuffer ==
  [][\A g \in Callers :
       (/\ Starts(g)
        /\ IsAccessTok(args'[g].token)
        /\ parsed[args'[g].token].claims.hasExp
        /\ parsed[args'[g].token].claims.exp <= now + tokenRefreshBuffer)
       => /\ pc'[g] = "done"
          /\ ret'[g].err = "ErrTokenExpired"]_vars

C9_KeysAreHashes ==
  \A k \in DOMAIN cache :
    /\ Len(k) = 2 * HashBytes
    /\ IsHex(k)
    /\ \E t \in offlineSeen : k = cacheKeyOf[t]
    /\ \A t \in OfflineTokens :
         ~HasPrefix(t, k) /\ ~HasPrefix(t, cache[k].accessToken)

C9_Witness == Cardinality(DOMAIN cache) = 2

\* C10: no access to either map is made without the lock it needs, a
\* caller in the read-locked check holds the read lock, a caller on the
\* refresh path holds the write lock, and the write lock is held by at most
\* one caller and never together with a read lock.
C10_LockDiscipline ==
  /\ races = {}
  /\ \A g \in Callers :
       /\ pc[g] = "rcheck" => HoldsRead(g)
       /\ InRefresh(g) => HoldsWrite(g)
  /\ \/ mu.writers = {}
     \/ Cardinality(mu.writers) = 1 /\ mu.readers = {}

\* C10 witness: two callers hold the read lock at once, over a cache that
\* a writer has filled.
C10_Witness ==
  /\ Cardinality(mu.readers) >= 2
  /\ DOMAIN cache # {}

\* The sentinel the claim assigns to the call of g, by the first stage that
\* fails: the token, then the probe, then the validation, then the exchange.
FirstFailure(g) ==
  LET tok == args[g].token
  IN IF tok = <<>> THEN "ErrNoToken"
     ELSE IF ~parsed[tok].ok THEN "ErrTokenMalformed"
     ELSE IF ~IsOfflineTok(tok) THEN "ErrTokenExpired"
     ELSE IF hist[g].probe.kind # "none" /\ hist[g].validated.res = "none"
     THEN "ErrRealmDiscoveryFailed"
     ELSE IF ~(hist[g].validated.res \in {"none", "nil"}) THEN "ErrInvalidRealmURL"
     ELSE "ErrRefreshFailed"

\* The call of g has failed: it has returned an error, or it has ended in a
\* panic.
Failed(g) == (pc[g] = "done" /\ ret[g].err # "nil") \/ pc[g] = "panicked"

\* C11: every call that fails returns one error, and that error is the
\* sentinel of the first stage that failed: ErrNoToken for the empty token,
\* ErrTokenMalformed for an undecodable one, ErrTokenExpired for an expired
\* access token, ErrRealmDiscoveryFailed for a failed probe or header parse,
\* ErrInvalidRealmURL for a rejected realm URL, ErrRefreshFailed for a
\* failed exchange.
C11_SentinelByStage ==
  \A g \in Callers :
    Failed(g) =>
      /\ pc[g] = "done"
      /\ ret[g].err \in Sentinels
      /\ ret[g].err = FirstFailure(g)
      /\ ret[g].value = <<>>
      /\ msg[g][1] = ErrorText(ret[g].err)

\* C12: a call with the empty string returns ErrNoToken, and nothing else,
\* in the step that starts it.
C12_EmptyIsNoToken ==
  [][\A g \in Callers :
       (Starts(g) /\ args'[g].token = <<>>)
       => /\ pc'[g] = "done"
          /\ ret'[g] = [value |-> <<>>, err |-> "ErrNoToken"]
          /\ msg'[g] = <<"no token provided">>]_vars

C12_Witness ==
  \E g \in Callers :
    /\ pc[g] = "done"
    /\ args[g].token = TokEmpty
    /\ ret[g].err = "ErrNoToken"

\* The tokens of the model that are not empty and do not decode: fewer or
\* more than three segments, an empty header, claims that do not decode.
UndecodableTokens ==
  {TokNotJWT, TokBadClaims, TokTwoSegments, TokFourSegments, TokNoHeader}

\* C13: a call with a token that is not empty and cannot be decoded into a
\* claim map returns ErrTokenMalformed.
C13_UndecodableIsMalformed ==
  [][\A g \in Callers :
       (Starts(g) /\ args'[g].token \in UndecodableTokens)
       => /\ pc'[g] = "done"
          /\ ret'[g] = [value |-> <<>>, err |-> "ErrTokenMalformed"]
          /\ msg'[g][1] = "token is malformed"]_vars

\* C13 witness: the token with four segments has been turned down.
C13_Witness ==
  \E g \in Callers :
    /\ pc[g] = "done"
    /\ args[g].token = TokFourSegments
    /\ ret[g].err = "ErrTokenMalformed"

\* validateRealmURL has been applied on its own, to the parts of pure.in.
Validated == pure.fn = "validateRealmURL" /\ pure.done
Accepted == Validated /\ pure.out = "nil"

\* C14: validateRealmURL accepts a realm URL only if its scheme is https,
\* or its scheme is http and its host is localhost or a loopback address.
C14_SchemeRule ==
  Accepted =>
    \/ pure.in.scheme = SchemeHTTPS
    \/ pure.in.scheme = SchemeHTTP /\ pure.in.host \in LoopbackHosts

\* C14 witness: http to the loopback address has been accepted.
C14_Witness ==
  /\ Accepted
  /\ pure.in.scheme = SchemeHTTP
  /\ pure.in.host = IPLoopback

\* C15: validateRealmURL rejects a realm URL whose host is a private,
\* link-local or unspecified IP address, whatever the expected host is, and
\* never turns down a host that is a name for being such an address.
C15_ReservedIPRejected ==
  Validated =>
    /\ pure.in.host \in ReservedIPs => pure.out # "nil"
    /\ pure.in.host \in NamedHosts =>
         pure.out # "realm URL points to private/reserved address"

\* C15 witness: a private address has been rejected as such although it is
\* the expected host itself.
C15_Witness ==
  /\ Validated
  /\ pure.in.host = IPPrivate10
  /\ pure.in.expectedHost = IPPrivate10
  /\ pure.out = "realm URL points to private/reserved address"

\* The labels of a host, lower case, and the last two of them.
Labels(h) == Split(ToLower(h), ".")
BaseLabels(h) ==
  IF Len(Labels(h)) < 2 THEN Labels(h)
  ELSE SubSeq(Labels(h), Len(Labels(h)) - 1, Len(Labels(h)))
\* h lies below the base domain of other.
BelowBaseOf(h, other) ==
  /\ Len(Labels(h)) > Len(BaseLabels(other))
  /\ SubSeq(Labels(h), Len(Labels(h)) - Len(BaseLabels(other)) + 1, Len(Labels(h)))
       = BaseLabels(other)
\* Related as the claim defines it.
Related(r, e) ==
  \/ BaseLabels(r) = BaseLabels(e)
  \/ BelowBaseOf(r, e)
  \/ BelowBaseOf(e, r)
  \/ r \in LoopbackHosts /\ e \in LoopbackHosts
\* The parts pass every check of validateRealmURL but the last.
PassesOtherChecks(i) ==
  /\ \/ i.scheme = SchemeHTTPS
     \/ i.scheme = SchemeHTTP /\ i.host \in LoopbackHosts
  /\ i.user = <<>>
  /\ \A k \in 1..Len(i.port) : IsDigit(i.port[k])
  /\ ~(i.host \in ReservedIPs)

\* C16: a realm URL that passes the other checks is accepted if and only if
\* its host is related to the expected host: same last two labels without
\* regard to case, one host below the other's base domain, or both loopback.
C16_RelatedIff ==
  (Validated /\ PassesOtherChecks(pure.in)) =>
    (pure.out = "nil" <=> Related(pure.in.host, pure.in.expectedHost))

\* C16 witness: hosts that share their base domain up to case have been
\* accepted.
C16_Witness ==
  /\ Accepted
  /\ pure.in.host = HostUpper
  /\ pure.in.expectedHost = HostLower

\* C17: validateRealmURL rejects every realm URL with a userinfo part.
C17_UserinfoRejected ==
  (Validated /\ pure.in.user # <<>>) => pure.out # "nil"

\* C17 witness: a URL that is acceptable but for its user:password has been
\* rejected for it.
C17_Witness ==
  /\ Validated
  /\ pure.in.scheme = SchemeHTTPS
  /\ pure.in.user = <<"u", ":", "p">>
  /\ pure.in.host = HostAuth
  /\ pure.in.expectedHost = HostProd
  /\ pure.out = "realm URL must not contain credentials"

\* extractRealmFromWWWAuthenticate has been applied on its own.
Extracted == pure.fn = "extractRealmFromWWWAuthenticate" /\ pure.done

\* C18: for a header "Bearer realm=" with the value U in quotes or bare,
\* followed or not by further comma-separated parameters, the function
\* returns exactly U; for a header that does not start with "Bearer " or
\* has no realm parameter it returns the empty string.
C18_RealmExtracted ==
  Extracted =>
    /\ (pure.in.prefix = BearerPrefix /\ pure.in.form # "none") =>
         pure.out = pure.in.value
    /\ (pure.in.prefix # BearerPrefix \/ pure.in.form = "none") =>
         pure.out = <<>>

\* C19: a probe answered with a www-authenticate value of more than 2048
\* bytes ends the call with ErrRealmDiscoveryFailed and without a realm
\* URL, although the value holds a well-formed realm parameter; a value of
\* exactly 2048 bytes is parsed and yields its realm.
C19_HeaderLengthBound ==
  \A g \in Callers :
    /\ (hist[g].probe.kind = "header"
        /\ Len(hist[g].probe.header) > maxWWWAuthHeaderLen) =>
         /\ pc[g] = "done"
         /\ ret[g] = [value |-> <<>>, err |-> "ErrRealmDiscoveryFailed"]
         /\ msg[g] = <<"realm URL discovery failed",
                       "could not parse realm from www-authenticate header">>
         /\ realmURL[g] = <<>>
         /\ hist[g].exchRealm = <<>>
    /\ hist[g].probe.header = HdrMaxLen => realmURL[g] = RealmProd

\* C19 witness: the header of 2049 bytes has been turned down; it begins
\* with the header that yields the realm.
C19_Witness ==
  \E g \in Callers :
    /\ hist[g].probe.header = HdrTooLong
    /\ Len(HdrTooLong) = maxWWWAuthHeaderLen + 1
    /\ Len(HdrMaxLen) = maxWWWAuthHeaderLen
    /\ SubSeq(HdrTooLong, 1, Len(HdrQuotedProd)) = HdrQuotedProd
    /\ extractRealmFromWWWAuthenticate(HdrQuotedProd) = RealmProd
    /\ ret[g].err = "ErrRealmDiscoveryFailed"

\* The headers of the model from which no realm value other than the empty
\* one can be taken: another scheme, no realm parameter, an empty realm, a
\* realm value that is an opening quote and nothing else.
NoRealmHeaders == {HdrBasic, HdrNoRealm, HdrEmptyRealm, HdrLoneQuote}

\* C20: a probe that fails in transport, answers with a status other than
\* Unauthenticated, carries no www-authenticate header or carries one that
\* yields no realm ends the call with ErrRealmDiscoveryFailed, the cause in
\* the text of the error, and no exchange request sent.
C20_DiscoveryFailure ==
  \A g \in Callers :
    (\/ hist[g].probe.kind \in {"transport", "status", "noheader"}
     \/ hist[g].probe.kind = "header" /\ hist[g].probe.header \in NoRealmHeaders)
    => /\ pc[g] = "done"
       /\ ret[g] = [value |-> <<>>, err |-> "ErrRealmDiscoveryFailed"]
       /\ Len(msg[g]) >= 2
       /\ msg[g][1] = "realm URL discovery failed"
       /\ hist[g].probe.kind \in {"transport", "status"} =>
            msg[g][Len(msg[g])] = hist[g].probe.cause
       /\ hist[g].exchRealm = <<>>

\* The key of the realm-URL cache for the target of g's call.
TargetKey(g) == realmKeyOf[args[g].cfg]

\* C21: the step in which a call fails with ErrRealmDiscoveryFailed leaves
\* the realm-URL cache as it was, without an entry for the call's
\* host:port; and a call that looks for the realm URL of a target without an
\* entry sends a probe.
C21_FailedDiscoveryNotCached ==
  [][\A g \in Callers :
       /\ (pc[g] = "probing" /\ pc'[g] = "done"
           /\ ret'[g].err = "ErrRealmDiscoveryFailed")
          => /\ realmURLs' = realmURLs
             /\ ~(TargetKey(g) \in DOMAIN realmURLs')
       /\ (pc[g] = "getrealm" /\ pc'[g] # "getrealm"
           /\ ~(TargetKey(g) \in DOMAIN realmURLs))
          => /\ pc'[g] = "probing"
             /\ probes' = probes + 1]_vars

\* C21 witness: one caller has failed with ErrRealmDiscoveryFailed and
\* another, who took the write lock after it, has a new probe in flight for
\* the same target; the realm-URL cache has no entry for it.
C21_Witness ==
  \E g, h \in Callers :
    /\ pc[g] = "done"
    /\ ret[g].err = "ErrRealmDiscoveryFailed"
    /\ pc[h] = "probing"
    /\ args[h].cfg = args[g].cfg
    /\ ~(TargetKey(h) \in DOMAIN realmURLs)
    /\ probes = 2

\* wrapOAuthError has been applied.
Wrapped == pure.fn = "wrapOAuthError" /\ pure.done
\* The error text has the code as one of its space-separated words.
HasCode(text, code) ==
  \E i \in 1..Len(Split(text, " ")) : Split(text, " ")[i] = code

\* C22: wrapOAuthError of nil is nil; of any other error it is an error
\* matching ErrRefreshFailed, whose text is "token refresh failed" followed
\* by the message for invalid_grant if the error text has that code, else by
\* the one for invalid_client, else by the one for unauthorized_client, else
\* by the error text itself.
C22_WrapClassification ==
  Wrapped =>
    LET e == pure.in
        r == pure.out
    IN IF e.isNil THEN r.err = "nil"
       ELSE /\ r.err = "ErrRefreshFailed"
            /\ Len(r.text) = 2
            /\ r.text[1] = "token refresh failed"
            /\ IF HasCode(e.text, InvalidGrant)
               THEN r.text[2] = MsgExpiredOrRevoked
               ELSE IF HasCode(e.text, InvalidClient)
               THEN r.text[2] = MsgClientAuthFailed
               ELSE IF HasCode(e.text, UnauthorizedClient)
               THEN r.text[2] = MsgClientNotAuthorized
               ELSE r.text[2] = e.text

\* C22 witness: an error text with invalid_client before invalid_grant has
\* been wrapped as the expired-or-revoked error.
C22_Witness ==
  /\ Wrapped
  /\ ~pure.in.isNil
  /\ HasPrefix(pure.in.text, InvalidClient)
  /\ HasCode(pure.in.text, InvalidGrant)
  /\ pure.out.text[2] = MsgExpiredOrRevoked

\* C23: when the probe or the token request of a call comes back with the
\* error of the caller's context (cancelled, or past its deadline), the call
\* returns in that step, with ErrRealmDiscoveryFailed for the probe and
\* ErrRefreshFailed for the token request, the write lock is free again and
\* the access-token cache is as it was.
C23_CancelledInFlight ==
  [][\A g \in Callers :
       /\ \A o \in AllProbeOutcomes :
            (o.kind = "cancelled" /\ ProbeReturn(g, o))
            => /\ pc'[g] = "done"
               /\ ret'[g] = [value |-> <<>>, err |-> "ErrRealmDiscoveryFailed"]
               /\ HoldsWrite(g) /\ mu'.writers = {}
               /\ cache' = cache
       /\ \A o \in AllExchangeOutcomes :
            (o.kind = "cancelled" /\ ExchangeReturn(g, o))
            => /\ pc'[g] = "done"
               /\ ret'[g] = [value |-> <<>>, err |-> "ErrRefreshFailed"]
               /\ HoldsWrite(g) /\ mu'.writers = {}
               /\ cache' = cache]_vars

\* C23 witness: a token request that was to replace a stale cache entry has
\* ended with the error of the context; the call has returned
\* ErrRefreshFailed, the lock is free and the stale entry is still there.
C23_Witness ==
  \E g \in Callers :
    /\ pc[g] = "done"
    /\ hist[g].exchange = "cancelled"
    /\ ret[g].err = "ErrRefreshFailed"
    /\ mu.writers = {}
    /\ cacheKeyOf[args[g].token] \in DOMAIN cache
    /\ cache[cacheKeyOf[args[g].token]].accessToken = IssuedToken(1)
    /\ exchanges = 2

\* C24: Close can complete in every state, whoever holds the lock, in
\* particular while a caller holds the write lock with its probe or token
\* request in flight; and the step that closes the idle connections changes
\* neither cache, nor the lock, nor the position of any call.
C24_CloseDoesNotWait ==
  /\ [](ENABLED Close)
  /\ [][(idleConns > 0 /\ idleConns' = 0)
          => UNCHANGED <<cache, realmURLs, mu, pc, ret>>]_vars

\* C24 witness: Close has returned while a caller held the write lock with
\* a network call in flight; the idle connections are closed and the caller
\* still holds the lock, its call still in flight.
C24_Witness ==
  /\ closedBusy
  /\ idleConns = 0
  /\ cache # <<>>
  /\ \E g \in Callers : HoldsWrite(g) /\ InFlight(g)

\* The key of the access-token cache for the token of g's call.
TokenKey(g) == cacheKeyOf[args[g].token]

\* C25: a call that makes the check under the read lock or the double check
\* under the write lock returns the cached token exactly when the cache has
\* an entry for its token with now + 60s strictly before expiresAt; in every
\* other case (no entry, or now + 60s at or after expiresAt) it goes on, from
\* the first check to taking the write lock and from the double check to the
\* refresh.
C25_ServedOnlyBeforeBuffer ==
  [][\A g \in Callers :
       (pc[g] \in {"rcheck", "wcheck"} /\ pc'[g] # pc[g])
       => IF /\ TokenKey(g) \in DOMAIN cache
             /\ now + tokenRefreshBuffer < cache[TokenKey(g)].expiresAt
          THEN /\ pc'[g] = "done"
               /\ ret'[g] = [value |-> cache[TokenKey(g)].accessToken, err |-> "nil"]
          ELSE pc'[g] = (IF pc[g] = "rcheck" THEN "wlock" ELSE "getrealm")]_vars

\* C25 witness: a caller is past the double check and on the refresh path
\* with an entry in the cache whose expiresAt is exactly now + 60s.
C25_Witness ==
  \E g \in Callers :
    /\ pc[g] = "getrealm"
    /\ TokenKey(g) \in DOMAIN cache
    /\ now + tokenRefreshBuffer = cache[TokenKey(g)].expiresAt
    /\ hist[g].snap.present

\* The cache entry under key k is valid at time t: it exists and t + 60s
\* is before its expiry.
ValidAt(c, k, t) == k \in DOMAIN c /\ t + tokenRefreshBuffer < c[k].expiresAt
\* In this step the token request of g comes back with a token for key k.
ExchangeSucceeds(g, k) ==
  /\ pc[g] = "exchanging" /\ pc'[g] = "done"
  /\ TokenKey(g) = k
  /\ ret'[g].err = "nil"

C27_NoLostUpdate ==
  [][/\ \A g \in Callers, o \in ExchangeOutcomes :
          (o.kind \in {"token", "noexpiry"} /\ ExchangeReturn(g, o))
          => /\ HoldsWrite(g)
             /\ TokenKey(g) \in DOMAIN cache'
             /\ cache'[TokenKey(g)] =
                  [accessToken |-> ret'[g].value,
                   expiresAt |-> IF o.kind = "noexpiry" THEN ZeroTime
                                 ELSE now + o.offset]
             /\ ret'[g].value = IssuedToken(exchanges)
     /\ \A k \in DOMAIN cache' :
          (~\E g \in Callers : ExchangeSucceeds(g, k))
          => (k \in DOMAIN cache /\ cache'[k] = cache[k])
     /\ \A g \in Callers :
          (pc[g] \in {"rcheck", "wcheck"} /\ pc'[g] = "done")
          => /\ TokenKey(g) \in DOMAIN cache
             /\ ret'[g].value = cache[TokenKey(g)].accessToken]_vars

\* C27 witness: the second exchange for an identity has replaced the result
\* of the first, and a later caller, served from the cache without a network
\* call of its own, has returned the token of the second.
C27_Witness ==
  /\ Cardinality(offlineSeen) = 1
  /\ exchanges = 2
  /\ \E h \in Callers :
       /\ pc[h] = "done"
       /\ IsOfflineTok(args[h].token)
       /\ hist[h].netCalls = 0
       /\ ret[h] = [value |-> IssuedToken(2), err |-> "nil"]
       /\ cache[TokenKey(h)].accessToken = IssuedToken(2)

\* C28: in every step, every realm URL stored under a host:port key is
\* still stored, unchanged, after the step; a refresh whose target has a
\* stored realm URL takes it and sends no probe; and a probe comes back with
\* a realm URL only for a target that has none stored, and stores it, so
\* that no second probe for the target can come back with one.
C28_RealmStoredOnce ==
  [][/\ \A k \in DOMAIN realmURLs :
          k \in DOMAIN realmURLs' /\ realmURLs'[k] = realmURLs[k]
     /\ \A g \in Callers :
          /\ (pc[g] = "getrealm" /\ pc'[g] # "getrealm"
              /\ TargetKey(g) \in DOMAIN realmURLs)
             => /\ pc'[g] = "validate"
                /\ realmURL'[g] = realmURLs[TargetKey(g)]
                /\ probes' = probes
          /\ (pc[g] = "probing" /\ pc'[g] = "validate")
             => /\ TargetKey(g) \notin DOMAIN realmURLs
                /\ TargetKey(g) \in DOMAIN realmURLs'
                /\ realmURL'[g] = realmURLs'[TargetKey(g)]]_vars

\* C28 witness: two callers refresh for the same target at the same time;
\* the probe of one has stored the realm URL, and the other, who made no
\* network call, has taken the stored URL.
C28_Witness ==
  \E g, h \in Callers :
    /\ g # h
    /\ pc[g] = "validate"
    /\ hist[g].netCalls = 0
    /\ realmURL[g] = realmURLs[TargetKey(g)]
    /\ pc[h] = "done"
    /\ hist[h].probe.kind = "header"
    /\ args[h].cfg = args[g].cfg
    /\ probes = 1

\* C29: every realm URL stored in the realm-URL cache under the key of a
\* target passes validateRealmURL against the host of that target.
C29_StoredRealmValidated ==
  \A c \in Configs :
    realmKeyOf[c] \in DOMAIN realmURLs
    => validated[realmURLs[realmKeyOf[c]], c] = "nil"

\* C30: extractRealmFromWWWAuthenticate returns a string, empty or not, for
\* every header of at most 2048 bytes; it never ends in a runtime fault.
C30_ExtractTotal ==
  (Extracted /\ Len(BuildHeader(pure.in)) <= maxWWWAuthHeaderLen)
  => pure.out # Panic

\* The call of g has returned an access token for an offline token.
ReturnedForOffline(g) ==
  pc[g] = "done" /\ IsOfflineTok(args[g].token) /\ ret[g].err = "nil"

\* C31: the offline tokens have cache keys different from one another, and
\* every access token returned to a caller who presented an offline token
\* was obtained by an exchange of that same offline token.
C31_NoCrossIdentity ==
  /\ \A a, b \in OfflineTokens : a # b => cacheKeyOf[a] # cacheKeyOf[b]
  /\ \A g \in Callers :
       ReturnedForOffline(g)
       => /\ ret[g].value \in DOMAIN origin
          /\ origin[ret[g].value].token = args[g].token

\* C31 witness: two callers with different offline tokens have returned,
\* the second served after the entry of the first was in the cache, each
\* with the access token of its own exchange.
C31_Witness ==
  \E g, h \in Callers :
    /\ ReturnedForOffline(g) /\ ReturnedForOffline(h)
    /\ args[g].token # args[h].token
    /\ ret[g].value # ret[h].value
    /\ hist[h].netCalls > 0
    /\ Cardinality(DOMAIN cache) = 2

\* C32: every access token returned to a caller who presented an offline
\* token was obtained by an exchange made for the target of that same call,
\* against the realm URL stored for that target.
C32_TokenOfOwnTarget ==
  \A g \in Callers :
    (ReturnedForOffline(g) /\ ret[g].value \in DOMAIN origin)
    => /\ origin[ret[g].value].cfg = args[g].cfg
       /\ TargetKey(g) \in DOMAIN realmURLs
       /\ origin[ret[g].value].realm = realmURLs[TargetKey(g)]

\* C33: in the step in which a call returns an access token for an offline
\* token, from the cache or from an exchange, the expiry recorded for that
\* token is strictly later than now + 60s.
C33_ReturnedBeforeBuffer ==
  [][\A g \in Callers :
       (pc[g] \in {"rcheck", "wcheck", "exchanging"} /\ pc'[g] = "done"
        /\ ret'[g].err = "nil")
       => /\ TokenKey(g) \in DOMAIN cache'
          /\ cache'[TokenKey(g)].accessToken = ret'[g].value
          /\ now + tokenRefreshBuffer < cache'[TokenKey(g)].expiresAt]_vars

\* C34: when a call for an offline token has returned an error, the cache
\* holds for the token exactly what it held when the call began (an entry
\* equal to the one seen then, or none), and nothing for any other key.
C34_ErrorLeavesCache ==
  \A g \in Callers :
    (pc[g] = "done" /\ ret[g].err # "nil" /\ IsOfflineTok(args[g].token))
    => /\ Lookup(TokenKey(g)) = hist[g].snap
       /\ DOMAIN cache \subseteq {TokenKey(g)}

\* C34 witness: the call began with a stale entry in the cache, its
\* exchange failed, and the entry is still there.
C34_Witness ==
  \E g \in Callers :
    /\ pc[g] = "done"
    /\ ret[g].err = "ErrRefreshFailed"
    /\ hist[g].snap.present
    /\ Lookup(TokenKey(g)) = hist[g].snap

\* The callers whose call has returned ErrRefreshFailed.
RefreshFailures == {g \in Callers : pc[g] = "done" /\ ret[g].err = "ErrRefreshFailed"}

\* C35: every caller that has returned ErrRefreshFailed has sent a token
\* request of its own, which came back with an error; the requests sent are
\* at least as many as those failures and the tokens obtained together, one
\* request each; and a failure leaves nothing in the cache: every entry
\* holds a token that an exchange obtained.
C35_FailureNotShared ==
  /\ \A g \in RefreshFailures :
       /\ hist[g].netCalls >= 1
       /\ hist[g].exchange = "error"
       /\ hist[g].exchRealm # <<>>
  /\ exchanges >= Cardinality(RefreshFailures) + Cardinality(DOMAIN origin)
  /\ \A k \in DOMAIN cache : cache[k].accessToken \in DOMAIN origin

\* C35 witness: with one offline token, the first two requests have failed,
\* each in a call of its own; a later call has sent the third request and
\* has got a token, while a caller of a failed one still holds its error.
C35_Witness ==
  /\ Cardinality(offlineSeen) = 1
  /\ exchanges = 3
  /\ DOMAIN origin = {IssuedToken(3)}
  /\ \E g, h \in Callers :
       /\ g # h
       /\ h \in RefreshFailures
       /\ pc[g] = "done"
       /\ ret[g] = [value |-> IssuedToken(3), err |-> "nil"]
       /\ hist[g].netCalls >= 1

\* The callers with a probe or a token request out.
CallsInFlight == {g \in Callers : InFlight(g)}

\* C36: at most one caller has a probe or a token request out at any time,
\* and that caller holds the write lock, alone: nobody holds the read lock.
C36_OneNetworkCall ==
  /\ Cardinality(CallsInFlight) <= 1
  /\ \A g \in CallsInFlight : mu = [readers |-> {}, writers |-> {g}]

\* C36 witness: a caller has its token request out while another, with a
\* different offline token and a different target, waits for the write lock.
C36_Witness ==
  \E g, h \in Callers :
    /\ pc[g] = "exchanging"
    /\ pc[h] = "wlock"
    /\ args[g].token # args[h].token
    /\ args[g].cfg # args[h].cfg

\* The call of g is under way: begun and not yet returned.
InCall(g) ==
  pc[g] \in {"rlock", "rcheck", "wlock", "wcheck", "getrealm", "probing",
            "validate", "exchanging"}

\* C37: a caller that is not in a call, or has returned from it, holds no
\* lock; a caller about to take the write lock does not hold the read lock;
\* the locks are held by callers in a call only; and under fair scheduling,
\* with network calls that come back, every call under way returns.
C37_LocksReleasedCallsReturn ==
  /\ [](\A g \in Callers :
          /\ ~InCall(g) => ~HoldsRead(g) /\ ~HoldsWrite(g)
          /\ pc[g] \in {"rlock", "wlock"} => ~HoldsRead(g) /\ ~HoldsWrite(g))
  /\ \A g \in Callers : InCall(g) ~> pc[g] = "done"

\* C37 witness: two callers that both took the write path, one waiting for
\* the other, have both returned, one of them with an error; no lock is
\* held.
C37_Witness ==
  /\ mu = [readers |-> {}, writers |-> {}]
  /\ \A g \in Callers : pc[g] = "done" /\ hist[g].netCalls >= 1
  /\ \E g \in Callers : ret[g].err # "nil"

\* The call of g waits at t.mu.RLock() or t.mu.Lock() with its ctx done.
CancelledWaiting(g) == pc[g] \in {"rlock", "wlock"} /\ args[g].ctx = "done"
\* The mutex lets g in: the one step a waiting caller has.
MutexAdmits(g) == IF pc[g] = "rlock" THEN CanRLock ELSE CanLock
\* g is kept out by the write lock of a caller whose probe or token request
\* is in flight: g has no step until that request comes back.
BehindNetworkCall(g) ==
  /\ ~MutexAdmits(g)
  /\ \E h \in Callers \ {g} : HoldsWrite(h) /\ pc[h] \in {"probing", "exchanging"}

\* C38: a caller whose ctx is done while it waits for the read or the write
\* lock does not depend on the caller that has the write lock: it is never
\* left without a step of its own for as long as the probe or the token
\* request of that caller lasts.
C38_CancelledWaiterNotHeldUp ==
  \A g \in Callers : CancelledWaiting(g) => ~BehindNetworkCall(g)

\* C39: against an expected host that is localhost or a loopback address,
\* validateRealmURL accepts only a realm URL whose host is localhost or a
\* loopback address itself.
C39_LoopbackOnlyWithLoopback ==
  (Accepted /\ isLocalhostHost(pure.in.expectedHost)) => isLocalhostHost(pure.in.host)
====
